---- MODULE Spec2Model ----
(***************************************************************************)
(* GitHub Issue Radar: the content script (githubAPI cache gateway, the    *)
(* detectors, the scorers, init), the sidebar's difficulty scorer and the  *)
(* background fetch, as state machines.                                    *)
(*                                                                         *)
(* Time is counted in whole seconds (GitHub's timestamps have one-second   *)
(* resolution); the source counts milliseconds, so every duration of the   *)
(* source is written here in seconds.                                      *)
(***************************************************************************)
EXTENDS Integers, Sequences, FiniteSets, TLC

VARIABLES
    now,          \* Date.now(), in seconds
    github_pat,   \* chrome.storage.sync: the stored github_pat
    features,     \* chrome.storage.sync: the stored features map
    popup,        \* the popup's token field, checkboxes and status text
    local,        \* chrome.storage.local: cache key -> entry
    calls,        \* the githubAPI invocations and where each one stands
    input,        \* the arguments a component of the engine is evaluated on
    output,       \* what the component returned
    location,     \* window.location.pathname.split('/')
    mount,        \* the mount targets the document holds: "none" or "header"
    banners,      \* the elements with id oss-tc-banner, in document order
    floatBtn,     \* the element with id oss-tc-float-btn, if any
    sidebar,      \* the element with id oss-tc-sidebar, if any
    runs          \* the init() evaluations and where each one stands

gatewayVars == <<github_pat, features, popup, local, calls>>
engineVars == <<input, output>>
pageVars == <<location, mount, banners, floatBtn, sidebar, runs>>
vars == <<now, gatewayVars, engineVars, pageVars>>

----------------------------------------------------------------------------
(* Bounds *)

MaxCalls == 2
MaxTicks == 2
NumBodies == 2

----------------------------------------------------------------------------
(* Durations of the source *)

SecondsPerHour == 60 * 60
SecondsPerDay == 24 * SecondsPerHour

\* const CACHE_TTL = 1000 * 60 * 10  (milliseconds; here seconds)
CACHE_TTL == 60 * 10

\* The clock advances in steps of half a TTL, so that an entry's age can be
\* below, exactly at, and above CACHE_TTL.
TickLen == CACHE_TTL \div 2

----------------------------------------------------------------------------
(* Values *)

Null == [kind |-> "null"]
Undefined == [kind |-> "undefined"]

Urls == {"issue", "comments"}
CallIds == 1 .. MaxCalls

\* A JSON payload answered by the GitHub API: always an object or an array,
\* which JavaScript takes as truthy.
Json(b) == [kind |-> "json", body |-> b]
Payloads == {Json(b) : b \in 1 .. NumBodies}

\* A string value: s is the sequence of its characters
Str(s) == [kind |-> "string", s |-> s]
Error(message) == [kind |-> "error", message |-> message]

\* JavaScript's truthiness, for the values that occur here
Truthy(v) == v \notin {Null, Undefined, Str(<<>>)}

\* The stored github_pat: never saved, saved empty, or a token.
StoredPATs == {Undefined, Str(<<>>), Str(<<"g", "h", "p", "_", "a">>)}

featureKeys == <<"pr", "claims", "momentum", "forks", "workload">>
FeatureKeySet == {featureKeys[i] : i \in 1 .. Len(featureKeys)}

\* features[key] !== false, the popup's reading of a stored flag: a flag never
\* saved counts as enabled
Enabled(stored, key) == stored = Undefined \/ stored[key]

\* The popup once it has loaded the saved settings: the token field holds the
\* stored PAT, if any, and each checkbox is checked unless its flag is false
PopupLoaded(pat, stored) ==
    [patInput |-> IF Truthy(pat) THEN pat.s ELSE <<>>,
     checked |-> [k \in FeatureKeySet |-> Enabled(stored, k)],
     statusText |-> IF Truthy(pat) THEN "PAT configured" ELSE ""]

\* HTTP statuses the GitHub API answers with
Statuses == {200, 401, 403, 500}

----------------------------------------------------------------------------
(* Cache gateway *)

cacheKeyOf(url) == <<"cache_", url>>
CacheKeys == {cacheKeyOf(u) : u \in Urls}

Entry(data, timestamp) == [kind |-> "entry", data |-> data, timestamp |-> timestamp]

\* getCache with the age test made inclusive
getCache_AgeInclusive(key) ==
    LET entry == local[key]
    IN  IF entry # Undefined /\ now - entry.timestamp <= CACHE_TTL
        THEN entry.data
        ELSE Null

\* getCache: the entry's data while now - timestamp < CACHE_TTL, else null
getCache(key) ==
    LET entry == local[key]
    IN  IF entry # Undefined /\ now - entry.timestamp < CACHE_TTL
        THEN entry.data
        ELSE Null

\* setCache: overwrites the entry of key, stamped with the current time
setCache(key, data) == [local EXCEPT ![key] = Entry(data, now)]

\* getPAT: result.github_pat || null
getPAT == IF Truthy(github_pat) THEN github_pat ELSE Null

\* fetchGitHub in the service worker, as the response the message listener sends
fetchGitHub(status, data) ==
    IF status = 403 THEN [success |-> FALSE, error |-> "Rate limited"]
    ELSE IF status = 401 THEN [success |-> FALSE, error |-> "Invalid Personal Access Token"]
    ELSE IF ~(status >= 200 /\ status <= 299) THEN [success |-> FALSE, error |-> "GitHub API error"]
    ELSE [success |-> TRUE, data |-> data]

\* What the store holds for key, by the entry's age (recorded with each read, for
\* the properties below; the code keeps no such field)
EntryState(key) ==
    IF local[key] = Undefined THEN "absent"
    ELSE IF now - local[key].timestamp >= CACHE_TTL THEN "expired"
    ELSE "fresh"

IdleCall ==
    [pc |-> "idle", url |-> "issue", pat |-> Null, cached |-> Null, result |-> Null,
     seen |-> "unread"]

\* githubAPI(url) is invoked: chrome.storage.sync.get is issued
Call(c, url) ==
    /\ calls[c].pc = "idle"
    /\ \A d \in CallIds : d < c => calls[d].pc # "idle"
    /\ calls' = [calls EXCEPT ![c] = [IdleCall EXCEPT !.pc = "getPAT", !.url = url]]
    /\ UNCHANGED <<now, github_pat, features, popup, local, engineVars, pageVars>>

\* const pat = await getPAT(); then chrome.storage.local.get is issued
GetPATReturn(c) ==
    /\ calls[c].pc = "getPAT"
    /\ calls' = [calls EXCEPT ![c].pc = "getCache", ![c].pat = getPAT]
    /\ UNCHANGED <<now, github_pat, features, popup, local, engineVars, pageVars>>

\* const cached = await getCache(cacheKey); if (cached) return cached;
\* otherwise chrome.runtime.sendMessage({type: 'FETCH_GITHUB', url, pat})
githubAPIAfterCache(c, cached) ==
    IF Truthy(cached)
    THEN [calls[c] EXCEPT !.pc = "resolved", !.cached = cached, !.result = cached]
    ELSE [calls[c] EXCEPT !.pc = "sent", !.cached = cached]

GetCacheReturn(c) ==
    /\ calls[c].pc = "getCache"
    /\ calls' = [calls EXCEPT ![c] =
                    [githubAPIAfterCache(c, getCache(cacheKeyOf(calls[c].url)))
                        EXCEPT !.seen = EntryState(cacheKeyOf(calls[c].url))]]
    /\ UNCHANGED <<now, github_pat, features, popup, local, engineVars, pageVars>>

\* The sendMessage callback: on success setCache and resolve, else reject
githubAPIOnResponse(c, response) ==
    IF response.success
    THEN /\ local' = setCache(cacheKeyOf(calls[c].url), response.data)
         /\ calls' = [calls EXCEPT ![c].pc = "resolved", ![c].result = response.data]
    ELSE /\ local' = local
         /\ calls' = [calls EXCEPT ![c].pc = "rejected", ![c].result = Error(response.error)]

Response(c, status, data) ==
    /\ calls[c].pc = "sent"
    /\ githubAPIOnResponse(c, fetchGitHub(status, data))
    /\ UNCHANGED <<now, github_pat, features, popup, engineVars, pageVars>>

Tick ==
    /\ now < MaxTicks * TickLen
    /\ now' = now + TickLen
    /\ UNCHANGED <<gatewayVars, engineVars, pageVars>>

GatewayIdle ==
    /\ local = [k \in CacheKeys |-> Undefined]
    /\ calls = [c \in CallIds |-> IdleCall]

EngineIdle ==
    /\ input = [fn |-> "none"]
    /\ output = [fn |-> "none"]

PageIdle ==
    /\ location = <<>>
    /\ mount = "none"
    /\ banners = <<>>
    /\ floatBtn = Null
    /\ sidebar = Null
    /\ runs = <<>>

Init ==
    /\ now = 0
    /\ github_pat \in StoredPATs
    /\ features = Undefined
    /\ popup = PopupLoaded(github_pat, features)
    /\ GatewayIdle
    /\ EngineIdle
    /\ PageIdle

Next ==
    \/ \E c \in CallIds, url \in Urls : Call(c, url)
    \/ \E c \in CallIds : GetPATReturn(c)
    \/ \E c \in CallIds : GetCacheReturn(c)
    \/ \E c \in CallIds, status \in Statuses, data \in Payloads : Response(c, status, data)
    \/ Tick

Spec == Init /\ [][Next]_vars

----------------------------------------------------------------------------
(* Claims on the cache gateway, under Spec *)

InFlight(c) == calls[c].pc = "sent"

\* C1: for any key at most one remote load is in flight at any instant: a second
\* githubAPI(url) made while an earlier one for the same url is outstanding issues
\* no second FETCH_GITHUB request.
C1_AtMostOneLoadPerKey ==
    \A c \in CallIds, d \in CallIds :
        (c # d /\ InFlight(c) /\ InFlight(d)) => calls[c].url # calls[d].url

\* C3: githubAPI(url) sends a request only on a miss or an expiry: an entry of
\* age < CACHE_TTL is returned and nothing is sent; an absent entry or one of
\* age >= CACHE_TTL sends a request; an entry, once written, is never deleted, and
\* changes only when a successful fetch for its key overwrites it.
C3_RequestOnlyOnMissOrExpiry ==
    [][ /\ \A c \in CallIds :
            (calls[c].pc = "getCache" /\ calls'[c].pc # "getCache") =>
                LET entry == local[cacheKeyOf(calls[c].url)]
                IN  IF entry # Undefined /\ now - entry.timestamp < 10 * 60
                    THEN calls'[c].pc = "resolved" /\ calls'[c].result = entry.data
                    ELSE calls'[c].pc = "sent"
        /\ \A c \in CallIds :
            (calls'[c].pc = "sent" /\ calls[c].pc # "sent") => calls[c].pc = "getCache"
        /\ \A k \in CacheKeys : local[k] # Undefined => local'[k] # Undefined
        /\ \A k \in CacheKeys :
            local'[k] # local[k] =>
                \E c \in CallIds :
                    /\ calls[c].pc = "sent" /\ calls'[c].pc = "resolved"
                    /\ cacheKeyOf(calls[c].url) = k
                    /\ local'[k] = Entry(calls'[c].result, now)
      ]_vars

\* C3's case: a request is in flight for a key whose entry was read as expired
\* and is still in the store, after another call was resolved by a request.
C3_Witness ==
    \E c \in CallIds :
        /\ calls[c].pc = "sent"
        /\ calls[c].seen = "expired"
        /\ local[cacheKeyOf(calls[c].url)] # Undefined
        /\ \E d \in CallIds : calls[d].pc = "resolved" /\ calls[d].cached = Null

\* A fresh entry answered a call without any request.
C3_HitReached ==
    \E c \in CallIds : calls[c].pc = "resolved" /\ calls[c].seen = "fresh"

\* C4: when the load for a key fails, the cache table is unchanged by the failed
\* call and the failure is delivered as a rejection to every caller waiting on
\* that key.
C4_FailureReachesEveryWaiter ==
    [][ \A c \in CallIds :
            (calls[c].pc = "sent" /\ calls'[c].pc = "rejected") =>
                /\ local' = local
                /\ \A d \in CallIds :
                        (InFlight(d) /\ calls[d].url = calls[c].url) =>
                            calls'[d].pc = "rejected"
      ]_vars

\* What does hold of a failed load: the table is unchanged and the caller that
\* issued it is rejected.
FailedLoadLeavesCache ==
    [][ \A c \in CallIds :
            (calls[c].pc = "sent" /\ calls'[c].pc = "rejected") =>
                local' = local /\ calls'[c].result.kind = "error"
      ]_vars

----------------------------------------------------------------------------
(* Strings: a string is the sequence of its characters *)

UpperCase == <<"A", "B", "C", "D", "E", "F", "G", "H", "I", "J", "K", "L", "M", "N", "O", "P", "Q", "R", "S", "T", "U", "V", "W", "X", "Y", "Z">>
LowerCase == <<"a", "b", "c", "d", "e", "f", "g", "h", "i", "j", "k", "l", "m", "n", "o", "p", "q", "r", "s", "t", "u", "v", "w", "x", "y", "z">>

\* The lower-case form of one character
LowerChar(c) ==
    IF \E k \in 1 .. 26 : UpperCase[k] = c
    THEN LowerCase[CHOOSE k \in 1 .. 26 : UpperCase[k] = c]
    ELSE c

RECURSIVE toLowerCase(_)
\* String.prototype.toLowerCase, on the letters A-Z
toLowerCase(s) ==
    IF s = <<>> THEN <<>> ELSE <<LowerChar(Head(s))>> \o toLowerCase(Tail(s))

\* String.prototype.includes
includes(s, sub) ==
    \E i \in 1 .. (Len(s) - Len(sub) + 1) : SubSeq(s, i, i + Len(sub) - 1) = sub

\* A number in a ratio of integers: the source divides by 3600000 and by 24
Ratio(num, den) == [num |-> num, den |-> den]
RatioGreater(q, n) == q.num > n * q.den
RatioLess(q, n) == q.num < n * q.den
Floor(q) == q.num \div q.den

\* An ISO timestamp string of the instant t, and new Date(string).getTime()
ISOString(t) == [kind |-> "iso", t |-> t]
DateOf(iso) == iso.t

----------------------------------------------------------------------------
(* Feature 2: stale claim detection *)

CLAIM_KEYWORDS == <<
    <<"i", "'", "m", " ", "w", "o", "r", "k", "i", "n", "g", " ", "o", "n", " ", "t", "h", "i", "s">>,
    <<"i", " ", "a", "m", " ", "w", "o", "r", "k", "i", "n", "g", " ", "o", "n", " ", "t", "h", "i", "s">>,
    <<"c", "a", "n", " ", "i", " ", "t", "a", "k", "e", " ", "t", "h", "i", "s">>,
    <<"i", "'", "l", "l", " ", "t", "a", "k", "e", " ", "t", "h", "i", "s">>,
    <<"i", " ", "w", "i", "l", "l", " ", "t", "a", "k", "e", " ", "t", "h", "i", "s">>,
    <<"w", "o", "r", "k", "i", "n", "g", " ", "o", "n", " ", "i", "t">>,
    <<"/", "a", "s", "s", "i", "g", "n">>,
    <<"t", "a", "k", "i", "n", "g", " ", "t", "h", "i", "s">>,
    <<"i", " ", "c", "a", "n", " ", "w", "o", "r", "k", " ", "o", "n", " ", "t", "h", "i", "s">>,
    <<"l", "e", "t", " ", "m", "e", " ", "w", "o", "r", "k", " ", "o", "n", " ", "t", "h", "i", "s">>,
    <<"i", "'", "l", "l", " ", "f", "i", "x", " ", "t", "h", "i", "s">>,
    <<"i", " ", "w", "i", "l", "l", " ", "f", "i", "x", " ", "t", "h", "i", "s">>,
    <<"i", "'", "l", "l", " ", "t", "a", "c", "k", "l", "e", " ", "t", "h", "i", "s">>
>>

STALE_CLAIM_HOURS == 72

----------------------------------------------------------------------------
(* The engine's components, each evaluated on arguments drawn in EngineInit *)

MaxPRs == 2
MaxClaims == 2
MaxForkMatches == 1

BoundedSeq(S, n) == UNION {[1 .. k -> S] : k \in 0 .. n}

\* The clock when an evaluation starts: late enough for 200-day-old timestamps
EngineEpoch == 300 * SecondsPerDay

(* --- Feature 1: PR detection --- *)

PRNumbers == {3, 7, 9}

\* The record pushed for an anchor of the Development section
SidebarPR(number) == [number |-> number, source |-> "sidebar"]

\* The record mapped from an item of the search response
ApiPR(number) == [number |-> number, source |-> "api"]

RECURSIVE AppendAll(_, _)
\* The merge without the seen set: every search entry is appended
AppendAll(all, rest) ==
    IF rest = <<>> THEN all ELSE AppendAll(Append(all, Head(rest)), Tail(rest))

detectPRs_NoSeen(anchors, response) ==
    AppendAll([i \in 1 .. Len(anchors) |-> SidebarPR(anchors[i])],
              IF response.success
              THEN [i \in 1 .. Len(response.data) |-> ApiPR(response.data[i])]
              ELSE <<>>)

RECURSIVE AppendUnseen(_, _, _)
\* apiPRs.forEach(p => { if (!seen.has(p.number)) { all.push(p); seen.add(p.number); } })
AppendUnseen(all, seen, rest) ==
    IF rest = <<>> THEN all
    ELSE LET p == Head(rest)
         IN  IF p.number \notin seen
             THEN AppendUnseen(Append(all, p), seen \cup {p.number}, Tail(rest))
             ELSE AppendUnseen(all, seen, Tail(rest))

\* detectPRs: anchors are the PR numbers of the Development section's links, in
\* document order; response is what githubAPI gave for the search (a rejection is
\* caught and leaves apiPRs empty)
detectPRs(anchors, response) ==
    LET sidebarPRs == [i \in 1 .. Len(anchors) |-> SidebarPR(anchors[i])]
        apiPRs == IF response.success
                  THEN [i \in 1 .. Len(response.data) |-> ApiPR(response.data[i])]
                  ELSE <<>>
        seen == {sidebarPRs[i].number : i \in 1 .. Len(sidebarPRs)}
    IN  AppendUnseen(sidebarPRs, seen, apiPRs)

SearchResponses ==
    {[success |-> TRUE, data |-> items] : items \in BoundedSeq(PRNumbers, MaxPRs)}
        \cup {[success |-> FALSE, error |-> "Rate limited"]}

DetectPRsInputs ==
    {[fn |-> "detectPRs", anchors |-> a, response |-> r] :
        a \in BoundedSeq(PRNumbers, MaxPRs), r \in SearchResponses}

DetectPRs ==
    /\ input.fn = "detectPRs"
    /\ output.fn = "none"
    /\ output' = [fn |-> "detectPRs", prs |-> detectPRs(input.anchors, input.response)]
    /\ UNCHANGED <<now, gatewayVars, input, pageVars>>

(* --- Feature 2: stale claim detection --- *)

\* hoursAgo with the subtraction the wrong way round
hoursAgo_Reversed(date) == Ratio(date - now, SecondsPerHour)

\* hoursAgo(date): (Date.now() - new Date(date).getTime()) / 3600000
hoursAgo(date) == Ratio(now - date, SecondsPerHour)

\* The first claim phrase the text holds (CLAIM_KEYWORDS.find), as its place in
\* the list, or 0
matchedKeyword(text) ==
    IF \E k \in 1 .. Len(CLAIM_KEYWORDS) : includes(text, CLAIM_KEYWORDS[k])
    THEN CHOOSE k \in 1 .. Len(CLAIM_KEYWORDS) :
            /\ includes(text, CLAIM_KEYWORDS[k])
            /\ \A j \in 1 .. (k - 1) : ~includes(text, CLAIM_KEYWORDS[j])
    ELSE 0

\* Whether a .timeline-comment-group yields a record: it has a body holding a
\* claim phrase, and a relative-time element
IsClaim(group) ==
    /\ group.body # Null
    /\ matchedKeyword(toLowerCase(group.body.s)) # 0
    /\ group.datetime # Null

\* The record detectClaims pushes for such a group
ClaimRecord(group) ==
    LET commentTime == DateOf(group.datetime)
        ageHours == hoursAgo(commentTime)
    IN  [claimer |-> IF Truthy(group.author) THEN group.author ELSE Str(<<"S", "o", "m", "e", "o", "n", "e">>),
         claimedAt |-> ISOString(commentTime),
         ageHours |-> Floor(ageHours),
         isStale |-> RatioGreater(ageHours, STALE_CLAIM_HOURS),
         keyword |-> CLAIM_KEYWORDS[matchedKeyword(toLowerCase(group.body.s))]]

RECURSIVE ScanGroups(_)
\* document.querySelectorAll('.timeline-comment-group').forEach(...)
ScanGroups(groups) ==
    IF groups = <<>> THEN <<>>
    ELSE IF IsClaim(Head(groups))
         THEN <<ClaimRecord(Head(groups))>> \o ScanGroups(Tail(groups))
         ELSE ScanGroups(Tail(groups))

\* One record put in its place of a list sorted by claimedAt descending, after
\* the records of the same instant (Array.prototype.sort is stable)
InsertByClaimedAt(sorted, r) ==
    LET before == {i \in 1 .. Len(sorted) :
                      DateOf(sorted[i].claimedAt) >= DateOf(r.claimedAt)}
        n == Cardinality(before)
    IN  SubSeq(sorted, 1, n) \o <<r>> \o SubSeq(sorted, n + 1, Len(sorted))

\* The records left in document order
SortByClaimedAt_DocumentOrder(sorted, rest) == sorted \o rest

RECURSIVE SortByClaimedAt(_, _)
\* results.sort((a, b) => new Date(b.claimedAt) - new Date(a.claimedAt))
SortByClaimedAt(sorted, rest) ==
    IF rest = <<>> THEN sorted
    ELSE SortByClaimedAt(InsertByClaimedAt(sorted, Head(rest)), Tail(rest))

\* detectClaims(), on the page's comment groups in document order
detectClaims(groups) == SortByClaimedAt(<<>>, ScanGroups(groups))

MaxComments == 2
MaxEngineTicks == 2

CommentBodies == {
    <<"I", "'", "l", "l", " ", "t", "a", "k", "e", " ", "t", "h", "i", "s">>,
    <<"W", "o", "r", "k", "i", "n", "g", " ", "o", "n", " ", "i", "t", "!">>,
    <<"n", "i", "c", "e", " ", "i", "d", "e", "a">> }

\* Comment times around the staleness limit, as ages when the evaluation starts
CommentAges == {SecondsPerHour, 72 * SecondsPerHour - 1, 72 * SecondsPerHour, 73 * SecondsPerHour}

CommentAuthors == {Str(<<"a", "l", "i", "c", "e">>), Str(<<"b", "o", "b">>)}

CommentGroups ==
    {[body |-> Str(b), datetime |-> ISOString(EngineEpoch - a), author |-> w] :
        b \in CommentBodies, a \in CommentAges, w \in CommentAuthors}
    \cup {[body |-> Null, datetime |-> ISOString(EngineEpoch), author |-> Str(<<"b", "o", "b">>)],
          [body |-> Str(<<"/", "a", "s", "s", "i", "g", "n">>), datetime |-> Null, author |-> Null],
          [body |-> Str(<<"/", "a", "s", "s", "i", "g", "n">>),
           datetime |-> ISOString(EngineEpoch - 2 * SecondsPerHour), author |-> Null]}

DetectClaimsInputs ==
    {[fn |-> "detectClaims", groups |-> g] : g \in BoundedSeq(CommentGroups, MaxComments)}

\* detectClaims is evaluated, for the first time or again at a later time
DetectClaims ==
    /\ input.fn = "detectClaims"
    /\ output' = [fn |-> "detectClaims", claims |-> detectClaims(input.groups), at |-> now]
    /\ output' # output
    /\ UNCHANGED <<now, gatewayVars, input, pageVars>>

\* Time passes between two evaluations of the same page
EngineTick ==
    /\ input.fn = "detectClaims"
    /\ now < EngineEpoch + MaxEngineTicks
    /\ now' = now + 1
    /\ UNCHANGED <<gatewayVars, engineVars, pageVars>>

(* --- Feature 3: momentum score --- *)

NaN == [kind |-> "NaN"]
Num(n) == [kind |-> "number", n |-> n]

\* new Date(x).getTime(): NaN for a missing (undefined) timestamp
TimeOf(x) == IF x = Undefined THEN NaN ELSE Num(DateOf(x))

\* (a - b) / 86400000, NaN when either time is
DaysBetween(a, b) == IF a = NaN \/ b = NaN THEN NaN ELSE Ratio(a.n - b.n, SecondsPerDay)

\* q < n and q >= n on a number that may be NaN: every comparison with NaN is false
Less(q, n) == q # NaN /\ RatioLess(q, n)
AtLeast(q, n) == q # NaN /\ ~RatioLess(q, n)

\* n > k and n === k on a count that may be undefined
CountOver(n, k) == n # Undefined /\ n.n > k
CountIs(n, k) == n # Undefined /\ n.n = k

Min(a, b) == IF a < b THEN a ELSE b
Max(a, b) == IF a > b THEN a ELSE b

\* Math.floor, NaN staying NaN
FloorOf(q) == IF q = NaN THEN NaN ELSE Num(Floor(q))

IsMaintainer(c) == c.author_association \in {"OWNER", "MEMBER", "COLLABORATOR"}

\* commentsData.find(...): the first maintainer comment's place, or 0
FindMaintainerResponse(commentsData) ==
    IF \E i \in 1 .. Len(commentsData) : IsMaintainer(commentsData[i])
    THEN CHOOSE i \in 1 .. Len(commentsData) :
            /\ IsMaintainer(commentsData[i])
            /\ \A j \in 1 .. (i - 1) : ~IsMaintainer(commentsData[j])
    ELSE 0

\* The sum before the clamp: 50, the recency term, the comment term, the
\* maintainer term
MomentumRaw(daysSinceUpdate, commentCount, maintainerResponseDays) ==
    50
    + (IF Less(daysSinceUpdate, 1) THEN 25
       ELSE IF Less(daysSinceUpdate, 7) THEN 15
       ELSE IF Less(daysSinceUpdate, 30) THEN 5
       ELSE IF Less(daysSinceUpdate, 90) THEN -10
       ELSE -30)
    + (IF CountOver(commentCount, 10) THEN 15
       ELSE IF CountOver(commentCount, 5) THEN 8
       ELSE IF CountOver(commentCount, 1) THEN 3
       ELSE IF CountIs(commentCount, 0) THEN -15
       ELSE 0)
    + (IF maintainerResponseDays # Null
       THEN (IF Less(maintainerResponseDays, 1) THEN 20
             ELSE IF Less(maintainerResponseDays, 7) THEN 10
             ELSE IF AtLeast(maintainerResponseDays, 30) THEN -10
             ELSE 0)
       ELSE -15)

\* The momentum score left as the raw sum
MomentumClamp_None(score) == score

\* score = Math.max(0, Math.min(100, score))
MomentumClamp(score) == Max(0, Min(100, score))

\* calcMomentumScore on what githubAPI gave for the issue and for its comments:
\* a rejection of either is caught and null is returned
calcMomentumScore(issueResponse, commentsResponse) ==
    IF ~issueResponse.success \/ ~commentsResponse.success THEN Null
    ELSE
        LET issueData == issueResponse.data
            commentsData == commentsResponse.data
            daysSinceUpdate == DaysBetween(Num(now), TimeOf(issueData.updated_at))
            daysSinceOpen == DaysBetween(Num(now), TimeOf(issueData.created_at))
            commentCount == issueData.comments
            at == FindMaintainerResponse(commentsData)
            maintainerResponseDays ==
                IF at # 0
                THEN DaysBetween(TimeOf(commentsData[at].created_at), TimeOf(issueData.created_at))
                ELSE Null
            score == MomentumClamp(MomentumRaw(daysSinceUpdate, commentCount, maintainerResponseDays))
        IN  [score |-> score,
             label |-> IF score >= 70 THEN "Active" ELSE IF score >= 40 THEN "Slow" ELSE "Stalled",
             daysSinceUpdate |-> FloorOf(daysSinceUpdate),
             daysSinceOpen |-> FloorOf(daysSinceOpen),
             commentCount |-> commentCount,
             maintainerResponseDays |->
                 IF maintainerResponseDays # Null THEN FloorOf(maintainerResponseDays) ELSE Null,
             lastActivity |-> issueData.updated_at]

MaxIssueComments == 2

\* The issue was opened 100 days before the evaluation
IssueCreatedAt == EngineEpoch - 100 * SecondsPerDay

\* Ages of the last update on both sides of each recency limit, and none
UpdatedAts ==
    {ISOString(EngineEpoch - a) :
        a \in {SecondsPerDay \div 2, SecondsPerDay, 7 * SecondsPerDay - 1, 7 * SecondsPerDay,
               30 * SecondsPerDay, 90 * SecondsPerDay - 1, 90 * SecondsPerDay}}
        \cup {Undefined}

CommentCounts == {Num(n) : n \in {0, 1, 2, 5, 6, 10, 11, 12}} \cup {Undefined}

\* Comments of the issue: who wrote each and how long after the issue was opened
IssueComments ==
    {[author_association |-> a, created_at |-> ISOString(IssueCreatedAt + lag)] :
        a \in {"NONE", "OWNER"},
        lag \in {SecondsPerDay \div 5, SecondsPerDay, 7 * SecondsPerDay, 30 * SecondsPerDay}}
        \cup {[author_association |-> "MEMBER", created_at |-> ISOString(IssueCreatedAt + 30 * SecondsPerDay - 1)],
              [author_association |-> "COLLABORATOR", created_at |-> ISOString(IssueCreatedAt + 7 * SecondsPerDay - 1)]}

IssueResponses ==
    {[success |-> TRUE,
      data |-> [updated_at |-> u, created_at |-> ISOString(IssueCreatedAt), comments |-> n]] :
        u \in UpdatedAts, n \in CommentCounts}
        \cup {[success |-> FALSE, error |-> "Rate limited"]}

CommentsResponses ==
    {[success |-> TRUE, data |-> c] : c \in BoundedSeq(IssueComments, MaxIssueComments)}
        \cup {[success |-> FALSE, error |-> "GitHub API error"]}

MomentumInputs ==
    {[fn |-> "calcMomentumScore", issue |-> i, comments |-> c] :
        i \in IssueResponses, c \in CommentsResponses}

CalcMomentumScore ==
    /\ input.fn = "calcMomentumScore"
    /\ output.fn = "none"
    /\ output' = [fn |-> "calcMomentumScore",
                  momentum |-> calcMomentumScore(input.issue, input.comments)]
    /\ UNCHANGED <<now, gatewayVars, input, pageVars>>

(* --- Feature 4: fork activity scanner --- *)

\* The filter without the test that the fork was pushed to after its creation
IsActiveFork_NoUntouchedTest(f) ==
    LET age == hoursAgo(DateOf(f.pushed_at))
    IN  RatioLess(Ratio(age.num, age.den * 24), 30)

\* forks.filter(f => hoursAgo(f.pushed_at) / 24 < 30 && f.pushed_at !== f.created_at)
IsActiveFork(f) ==
    LET age == hoursAgo(DateOf(f.pushed_at))
    IN  RatioLess(Ratio(age.num, age.den * 24), 30) /\ f.pushed_at # f.created_at

\* The test of branches.find
BranchMatches(name, issueNumber) ==
    \/ includes(name, issueNumber)
    \/ includes(toLowerCase(name), <<"f", "i", "x">>)
    \/ includes(toLowerCase(name), <<"f", "e", "a", "t", "u", "r", "e">>)

\* branches.find(...): the first matching branch's place, or 0
FindBranch(branches, issueNumber) ==
    IF \E i \in 1 .. Len(branches) : BranchMatches(branches[i], issueNumber)
    THEN CHOOSE i \in 1 .. Len(branches) :
            /\ BranchMatches(branches[i], issueNumber)
            /\ \A j \in 1 .. (i - 1) : ~BranchMatches(branches[j], issueNumber)
    ELSE 0

SelectActive(forks) == SelectSeq(forks, IsActiveFork)

\* activeForks.slice(0, 5)
FirstFive(activeForks) ==
    SubSeq(activeForks, 1, IF Len(activeForks) < 5 THEN Len(activeForks) ELSE 5)

RECURSIVE ScanForks(_, _)
\* The loop over the first five active forks: a fork whose branch lookup is
\* rejected, or that has no matching branch, adds nothing
ScanForks(candidates, issueNumber) ==
    IF candidates = <<>> THEN <<>>
    ELSE LET fork == Head(candidates)
             rest == ScanForks(Tail(candidates), issueNumber)
             at == IF fork.lookup.success THEN FindBranch(fork.lookup.data, issueNumber) ELSE 0
         IN  IF at # 0
             THEN <<[forkUrl |-> fork.full_name, owner |-> fork.full_name,
                     branchName |-> fork.lookup.data[at], pushedAt |-> fork.pushed_at]>> \o rest
             ELSE rest

\* scanForkActivity: response is what githubAPI gave for the fork listing; each
\* fork of the listing carries, as lookup, what githubAPI gives for its branches
scanForkActivity(response, issueNumber) ==
    IF response.success
    THEN ScanForks(FirstFive(SelectActive(response.data)), issueNumber)
    ELSE <<>>

\* The forks whose branch list scanForkActivity requests, in the order of the
\* requests
BranchRequests(response) ==
    IF response.success
    THEN LET candidates == FirstFive(SelectActive(response.data))
         IN  [i \in 1 .. Len(candidates) |-> candidates[i].full_name]
    ELSE <<>>

MaxLeadingForks == 5
MaxOtherForks == 2

ForkKind(age, touched, branches, lookupOk) ==
    [age |-> age, idle |-> IF touched THEN SecondsPerDay ELSE 0,
     branches |-> branches, lookupOk |-> lookupOk]

\* A fork created 50 days before the evaluation and pushed to a day before it
LongLivedFork ==
    [age |-> SecondsPerDay, idle |-> 49 * SecondsPerDay,
     branches |-> <<<<"m", "a", "i", "n">>, <<"f", "i", "x", "-", "1", "2", "3">>>>,
     lookupOk |-> TRUE]

\* A recently pushed fork without a matching branch
PlainFork == ForkKind(5 * SecondsPerDay, TRUE, <<<<"m", "a", "i", "n">>>>, TRUE)

\* A fork of the repository, before its place in the listing names it: pushed
\* `age` seconds before the evaluation, created then or a day earlier, with the
\* branches it has and whether the listing of them succeeds
ForkKinds == {
    PlainFork,
    LongLivedFork,
    ForkKind(5 * SecondsPerDay, TRUE, <<<<"m", "a", "i", "n">>, <<"f", "i", "x", "-", "1", "2", "3">>>>, TRUE),
    ForkKind(5 * SecondsPerDay, TRUE, <<<<"m", "a", "i", "n">>, <<"f", "i", "x", "-", "1", "2", "3">>>>, FALSE),
    ForkKind(5 * SecondsPerDay, FALSE, <<<<"m", "a", "i", "n">>, <<"f", "i", "x", "-", "1", "2", "3">>>>, TRUE),
    ForkKind(40 * SecondsPerDay, TRUE, <<<<"m", "a", "i", "n">>, <<"f", "i", "x", "-", "1", "2", "3">>>>, TRUE),
    ForkKind(30 * SecondsPerDay, TRUE, <<<<"f", "i", "x", "-", "1", "2", "3">>>>, TRUE),
    ForkKind(30 * SecondsPerDay - 1, TRUE, <<<<"F", "e", "a", "t", "u", "r", "e", "/", "L", "o", "g", "i", "n">>>>, TRUE),
    ForkKind(5 * SecondsPerDay, TRUE, <<<<"m", "a", "i", "n">>, <<"d", "e", "v", "-", "1", "2", "3">>>>, TRUE),
    ForkKind(5 * SecondsPerDay, TRUE, <<<<"H", "O", "T", "F", "I", "X">>, <<"f", "i", "x", "-", "1", "2", "3">>>>, TRUE) }

ForkOf(kind, place) ==
    [full_name |-> place,
     pushed_at |-> ISOString(EngineEpoch - kind.age),
     created_at |-> ISOString(EngineEpoch - kind.age - kind.idle),
     branches |-> kind.branches,
     lookup |-> IF kind.lookupOk THEN [success |-> TRUE, data |-> kind.branches]
                ELSE [success |-> FALSE, error |-> "GitHub API error"]]

\* Fork listings: some plain forks, then up to MaxOtherForks forks of any kind
ForkListings ==
    {[i \in 1 .. (n + Len(tail)) |-> ForkOf(IF i <= n THEN PlainFork ELSE tail[i - n], i)] :
        n \in 0 .. MaxLeadingForks, tail \in BoundedSeq(ForkKinds, MaxOtherForks)}

ScanForkInputs ==
    {[fn |-> "scanForkActivity", issueNumber |-> <<"1", "2", "3">>, listing |-> r] :
        r \in {[success |-> TRUE, data |-> l] : l \in ForkListings}
                \cup {[success |-> FALSE, error |-> "Rate limited"]}}

ScanForkActivity ==
    /\ input.fn = "scanForkActivity"
    /\ output.fn = "none"
    /\ output' = [fn |-> "scanForkActivity",
                  forks |-> scanForkActivity(input.listing, input.issueNumber),
                  requested |-> BranchRequests(input.listing)]
    /\ UNCHANGED <<now, gatewayVars, input, pageVars>>

(* --- Difficulty scoring engine (sidebar.js) --- *)

HARD_LABELS == <<
    <<"c", "o", "m", "p", "l", "e", "x", "i", "t", "y", ":", " ", "h", "i", "g", "h">>,
    <<"d", "i", "f", "f", "i", "c", "u", "l", "t", "y", ":", " ", "h", "a", "r", "d">>,
    <<"s", "e", "n", "i", "o", "r">>,
    <<"p", "e", "r", "f", "o", "r", "m", "a", "n", "c", "e">>,
    <<"s", "e", "c", "u", "r", "i", "t", "y">>,
    <<"a", "r", "c", "h", "i", "t", "e", "c", "t", "u", "r", "e">>,
    <<"b", "r", "e", "a", "k", "i", "n", "g", " ", "c", "h", "a", "n", "g", "e">>,
    <<"r", "e", "f", "a", "c", "t", "o", "r">>
>>

MEDIUM_LABELS == <<
    <<"d", "i", "f", "f", "i", "c", "u", "l", "t", "y", ":", " ", "m", "e", "d", "i", "u", "m">>,
    <<"c", "o", "m", "p", "l", "e", "x", "i", "t", "y", ":", " ", "m", "e", "d", "i", "u", "m">>,
    <<"e", "n", "h", "a", "n", "c", "e", "m", "e", "n", "t">>,
    <<"b", "u", "g">>
>>

EASY_LABELS == <<
    <<"g", "o", "o", "d", " ", "f", "i", "r", "s", "t", " ", "i", "s", "s", "u", "e">>,
    <<"g", "o", "o", "d", "-", "f", "i", "r", "s", "t", "-", "i", "s", "s", "u", "e">>,
    <<"b", "e", "g", "i", "n", "n", "e", "r">>,
    <<"e", "a", "s", "y">>,
    <<"s", "t", "a", "r", "t", "e", "r">>,
    <<"d", "i", "f", "f", "i", "c", "u", "l", "t", "y", ":", " ", "e", "a", "s", "y">>,
    <<"h", "e", "l", "p", " ", "w", "a", "n", "t", "e", "d">>
>>

HARD_KEYWORDS == <<
    <<"r", "a", "c", "e", " ", "c", "o", "n", "d", "i", "t", "i", "o", "n">>,
    <<"m", "e", "m", "o", "r", "y", " ", "l", "e", "a", "k">>,
    <<"c", "o", "n", "c", "u", "r", "r", "e", "n", "c", "y">>,
    <<"d", "e", "a", "d", "l", "o", "c", "k">>,
    <<"c", "r", "y", "p", "t", "o", "g", "r", "a", "p", "h">>,
    <<"a", "l", "g", "o", "r", "i", "t", "h", "m">>,
    <<"o", "p", "t", "i", "m", "i", "z", "a", "t", "i", "o", "n">>,
    <<"b", "e", "n", "c", "h", "m", "a", "r", "k">>,
    <<"r", "e", "g", "r", "e", "s", "s", "i", "o", "n">>,
    <<"m", "i", "g", "r", "a", "t", "i", "o", "n">>,
    <<"b", "r", "e", "a", "k", "i", "n", "g">>,
    <<"d", "e", "p", "r", "e", "c", "a", "t">>,
    <<"v", "u", "l", "n", "e", "r", "a", "b", "i", "l", "i", "t", "y">>,
    <<"e", "x", "p", "l", "o", "i", "t">>,
    <<"s", "e", "g", "f", "a", "u", "l", "t">>,
    <<"u", "n", "d", "e", "f", "i", "n", "e", "d", " ", "b", "e", "h", "a", "v", "i", "o", "r">>,
    <<"t", "h", "r", "e", "a", "d", " ", "s", "a", "f", "e">>,
    <<"a", "s", "y", "n", "c">>,
    <<"r", "e", "f", "a", "c", "t", "o", "r">>,
    <<"r", "e", "w", "r", "i", "t", "e">>,
    <<"a", "r", "c", "h", "i", "t", "e", "c", "t", "u", "r", "e">>
>>

EASY_KEYWORDS == <<
    <<"t", "y", "p", "o">>,
    <<"s", "p", "e", "l", "l", "i", "n", "g">>,
    <<"g", "r", "a", "m", "m", "a", "r">>,
    <<"d", "o", "c", "u", "m", "e", "n", "t", "a", "t", "i", "o", "n">>,
    <<"d", "o", "c", "s">>,
    <<"r", "e", "a", "d", "m", "e">>,
    <<"c", "o", "m", "m", "e", "n", "t">>,
    <<"t", "e", "s", "t">>,
    <<"l", "i", "n", "t">>,
    <<"f", "o", "r", "m", "a", "t">>,
    <<"s", "t", "y", "l", "e">>,
    <<"r", "e", "n", "a", "m", "e">>,
    <<"m", "i", "s", "s", "i", "n", "g", " ", "l", "i", "n", "k">>,
    <<"b", "r", "o", "k", "e", "n", " ", "l", "i", "n", "k">>,
    <<"u", "p", "d", "a", "t", "e", " ", "d", "e", "p", "e", "n", "d", "e", "n", "c", "y">>,
    <<"b", "u", "m", "p", " ", "v", "e", "r", "s", "i", "o", "n">>
>>

\* Array.prototype.includes
Member(list, x) == \E i \in 1 .. Len(list) : list[i] = x

\* list.filter(kw => text.includes(kw)).length
CountIncluded(list, text) == Cardinality({i \in 1 .. Len(list) : includes(text, list[i])})

\* The character U+0060 of a code fence (it cannot be written in a TLA+ string)
BackTick == "backtick"

RECURSIVE CountSplits(_, _)
\* s.split(sep).length - 1: the occurrences of sep in s, counted from the left
\* without overlap
CountSplits(s, sep) ==
    IF Len(s) < Len(sep) THEN 0
    ELSE IF SubSeq(s, 1, Len(sep)) = sep
         THEN 1 + CountSplits(SubSeq(s, Len(sep) + 1, Len(s)), sep)
         ELSE CountSplits(Tail(s), sep)

\* A body is written as its leading text s followed by pad further characters
\* that belong to no keyword and to no code fence
Body(s, pad) == [kind |-> "string", s |-> s, pad |-> pad]

\* (issueData.body || ''), and (issueData.title || '')
BodyOrEmpty(issueData) == IF Truthy(issueData.body) THEN issueData.body ELSE Body(<<>>, 0)
TitleOrEmpty(issueData) == IF Truthy(issueData.title) THEN issueData.title.s ELSE <<>>

\* A rule that fired, with the signal's type and its delta, and a rule that did not
Rule(type, delta) == [type |-> type, delta |-> delta]
NoRule == [type |-> "none", delta |-> 0]

\* Only the rules that raise the score leaving a signal
Fired_OnlyRaising(rule) == rule.type # "none" /\ rule.delta > 0

Fired(rule) == rule.type # "none"

RECURSIVE SumOfDeltas(_)
\* The deltas of the fired signals, added up
SumOfDeltas(signals) ==
    IF signals = <<>> THEN 0 ELSE Head(signals).delta + SumOfDeltas(Tail(signals))

\* The difficulty score left as the raw sum
DifficultyClamp_None(score) == score

\* score = Math.max(0, Math.min(100, score))
DifficultyClamp(score) == Max(0, Min(100, score))

\* The levels with each breakpoint belonging to the level below it
LevelOf_Inclusive(score) ==
    IF score <= 28 THEN [level |-> "beginner", canBeginner |-> TRUE]
    ELSE IF score <= 50 THEN [level |-> "easy-medium", canBeginner |-> TRUE]
    ELSE IF score <= 68 THEN [level |-> "medium", canBeginner |-> FALSE]
    ELSE IF score <= 82 THEN [level |-> "hard", canBeginner |-> FALSE]
    ELSE [level |-> "expert", canBeginner |-> FALSE]

\* The level and canBeginner of a clamped score
LevelOf(score) ==
    IF score < 28 THEN [level |-> "beginner", canBeginner |-> TRUE]
    ELSE IF score < 50 THEN [level |-> "easy-medium", canBeginner |-> TRUE]
    ELSE IF score < 68 THEN [level |-> "medium", canBeginner |-> FALSE]
    ELSE IF score < 82 THEN [level |-> "hard", canBeginner |-> FALSE]
    ELSE [level |-> "expert", canBeginner |-> FALSE]

\* calcDifficultyScore(issueData, comments, prHistory); comments is not read, and
\* prHistory is the array init passes (the prs detectPRs returned)
calcDifficultyScore(issueData, prHistory) ==
    LET title == toLowerCase(TitleOrEmpty(issueData))
        body == toLowerCase(BodyOrEmpty(issueData).s)
        text == title \o <<" ">> \o body
        labels == IF issueData.labels = Undefined THEN <<>>
                  ELSE [i \in 1 .. Len(issueData.labels.items) |->
                           toLowerCase(issueData.labels.items[i])]
        hardKws == CountIncluded(HARD_KEYWORDS, text)
        easyKws == CountIncluded(EASY_KEYWORDS, text)
        bodyLen == Len(BodyOrEmpty(issueData).s) + BodyOrEmpty(issueData).pad
        commentCount == IF issueData.comments = Undefined THEN 0 ELSE issueData.comments.n
        codeBlockCount == CountSplits(BodyOrEmpty(issueData).s, <<BackTick, BackTick, BackTick>>)
        \* the rules in the order the code runs them
        rules == <<
            IF \E i \in 1 .. Len(labels) : Member(EASY_LABELS, labels[i])
            THEN Rule("easy", -25) ELSE NoRule,
            IF \E i \in 1 .. Len(labels) :
                  \E h \in 1 .. Len(HARD_LABELS) : includes(labels[i], HARD_LABELS[h])
            THEN Rule("hard", 30) ELSE NoRule,
            IF \E i \in 1 .. Len(labels) : Member(MEDIUM_LABELS, labels[i])
            THEN Rule("medium", 5) ELSE NoRule,
            IF hardKws > 0 THEN Rule("hard", Min(hardKws * 8, 32)) ELSE NoRule,
            IF easyKws > 0 THEN Rule("easy", 0 - Min(easyKws * 7, 28)) ELSE NoRule,
            IF bodyLen > 3000 THEN Rule("hard", 12)
            ELSE IF bodyLen > 1000 THEN Rule("medium", 5)
            ELSE IF bodyLen < 200 THEN Rule("easy", -5)
            ELSE NoRule,
            IF commentCount > 20 THEN Rule("hard", 15)
            ELSE IF commentCount > 8 THEN Rule("medium", 7)
            ELSE NoRule,
            IF Len(prHistory) > 2 THEN Rule("hard", 18)
            ELSE IF Len(prHistory) > 0 THEN Rule("medium", 8)
            ELSE NoRule,
            IF codeBlockCount > 3 THEN Rule("hard", 10) ELSE NoRule >>
        \* signals.push for each rule that fired, score += its delta from 50
        signals == SelectSeq(rules, Fired)
        score == DifficultyClamp(50 + SumOfDeltas(signals))
    IN  [score |-> score, level |-> LevelOf(score).level,
         canBeginner |-> LevelOf(score).canBeginner, signals |-> signals]

MaxPriorPRs == 3

Titles == {
    Undefined,
    Str(<<"F", "i", "x", " ", "t", "y", "p", "o", " ", "i", "n", " ", "R", "E", "A", "D", "M", "E">>),
    Str(<<"R", "e", "f", "a", "c", "t", "o", "r", " ", "a", "s", "y", "n", "c", " ", "s", "c", "h", "e", "d", "u", "l", "e", "r", ":", " ", "r", "a", "c", "e", " ", "c", "o", "n", "d", "i", "t", "i", "o", "n", ",", " ", "d", "e", "a", "d", "l", "o", "c", "k", " ", "a", "n", "d", " ", "m", "e", "m", "o", "r", "y", " ", "l", "e", "a", "k">>) }

Bodies == {
    Undefined,
    Body(<<"s", "m", "a", "l", "l", " ", "d", "o", "c", "s", " ", "f", "i", "x">>, 0),
    Body(<<"P", "l", "e", "a", "s", "e", " ", "r", "e", "n", "a", "m", "e", " ", "t", "h", "e", " ", "m", "o", "d", "u", "l", "e", " ", "a", "n", "d", " ", "a", "d", "d", " ", "a", " ", "t", "e", "s", "t">>, 200),
    Body(<<"S", "t", "e", "p", "s", ":", " ", BackTick, BackTick, BackTick, " ", "r", "u", "n", " ", BackTick, BackTick, BackTick, " ", "t", "h", "e", "n", " ", BackTick, BackTick, BackTick, " ", "c", "r", "a", "s", "h", " ", BackTick, BackTick, BackTick, " ">>, 1001),
    Body(<<"R", "e", "g", "r", "e", "s", "s", "i", "o", "n", " ", "a", "f", "t", "e", "r", " ", "t", "h", "e", " ", "m", "i", "g", "r", "a", "t", "i", "o", "n", ";", " ", "s", "e", "e", " ", "b", "e", "n", "c", "h", "m", "a", "r", "k">>, 3001) }

\* The labels array of the issue, by the labels' names
Labels(names) == [kind |-> "array", items |-> names]

LabelSets == {
    Undefined,
    Labels(<<<<"g", "o", "o", "d", " ", "f", "i", "r", "s", "t", " ", "i", "s", "s", "u", "e">>>>),
    Labels(<<<<"S", "e", "c", "u", "r", "i", "t", "y">>, <<"b", "u", "g">>>>),
    Labels(<<<<"g", "o", "o", "d", " ", "f", "i", "r", "s", "t", " ", "i", "s", "s", "u", "e">>, <<"a", "r", "e", "a", ":", " ", "p", "e", "r", "f", "o", "r", "m", "a", "n", "c", "e">>, <<"e", "n", "h", "a", "n", "c", "e", "m", "e", "n", "t">>>>) }

DifficultyInputs ==
    {[fn |-> "calcDifficultyScore",
      issueData |-> [title |-> t, body |-> b, labels |-> l, comments |-> n],
      prHistory |-> [i \in 1 .. k |-> ApiPR(i)]] :
        t \in Titles, b \in Bodies, l \in LabelSets,
        n \in {Undefined, Num(0), Num(8), Num(9), Num(20), Num(21)}, k \in 0 .. MaxPriorPRs}

CalcDifficultyScore ==
    /\ input.fn = "calcDifficultyScore"
    /\ output.fn = "none"
    /\ output' = [fn |-> "calcDifficultyScore",
                  difficulty |-> calcDifficultyScore(input.issueData, input.prHistory)]
    /\ UNCHANGED <<now, gatewayVars, input, pageVars>>

(* --- Status resolver (in init) --- *)

\* The cascade without its last rule
Status_NoThirdRule(prs, claims, forks) ==
    IF Len(prs) > 0 THEN "red"
    ELSE IF \E i \in 1 .. Len(claims) : ~claims[i].isStale THEN "yellow"
    ELSE "green"

\* let status = 'green'; if (prs.length > 0) ... else if ... else if ...
Status(prs, claims, forks) ==
    IF Len(prs) > 0 THEN "red"
    ELSE IF \E i \in 1 .. Len(claims) : ~claims[i].isStale THEN "yellow"
    ELSE IF (\E i \in 1 .. Len(claims) : claims[i].isStale) \/ Len(forks) > 0 THEN "yellow"
    ELSE "green"

StatusInputs ==
    {[fn |-> "status", prs |-> p, claims |-> c, forks |-> f] :
        p \in BoundedSeq({SidebarPR(3), ApiPR(7)}, MaxPRs),
        c \in BoundedSeq({[claimer |-> "alice", isStale |-> st] : st \in BOOLEAN}, MaxClaims),
        f \in BoundedSeq({[owner |-> "bob", branchName |-> "fix-123"]}, MaxForkMatches)}

ResolveStatus ==
    /\ input.fn = "status"
    /\ output.fn = "none"
    /\ output' = [fn |-> "status",
                  status |-> Status(input.prs, input.claims, input.forks)]
    /\ UNCHANGED <<now, gatewayVars, input, pageVars>>

(* --- The engine's specification --- *)

(* --- The banner's header --- *)

\* claims.filter(c => !c.isStale)
IsFresh(c) == ~c.isStale

\* The header of buildBanner(status, data): which of the four texts it shows,
\* the number of PRs or the claimer it names, and the time headerSub counts from
buildBannerHeader(status, data) ==
    IF status = "red"
    THEN [headerText |-> "Active PRs Found", count |-> Len(data.prs),
          claimer |-> Null, since |-> Null]
    ELSE IF status = "yellow"
    THEN LET fresh == SelectSeq(data.claims, IsFresh)
         IN  IF Len(fresh) > 0
             THEN [headerText |-> "recently claimed this", count |-> Null,
                   claimer |-> fresh[1].claimer, since |-> fresh[1].claimedAt]
             ELSE [headerText |-> "Possible stale claim detected", count |-> Null,
                   claimer |-> Null, since |-> Null]
    ELSE [headerText |-> "Clear to Contribute", count |-> Null,
          claimer |-> Null, since |-> Null]

\* The status and data init hands to buildBanner: the claims are what
\* detectClaims gave on the page
BannerInputs ==
    {[fn |-> "buildBanner",
      status |-> Status(p, detectClaims(g), f),
      data |-> [prs |-> p, claims |-> detectClaims(g)]] :
        p \in {<<>>, <<ApiPR(7)>>},
        g \in BoundedSeq(CommentGroups, MaxComments),
        f \in {<<>>, <<[owner |-> "bob", branchName |-> "fix-123"]>>}}

BuildBanner ==
    /\ input.fn = "buildBanner"
    /\ output.fn = "none"
    /\ output' = [fn |-> "buildBanner", header |-> buildBannerHeader(input.status, input.data)]
    /\ UNCHANGED <<now, gatewayVars, input, pageVars>>

(* --- Sidebar: stat derivation --- *)

\* Reading a property of null
TypeError == [threw |-> TRUE, error |-> "TypeError"]

\* (issueData.body || '').match(/https?:\/\//g)?.length || 0
CountLinks(s) ==
    CountSplits(s, <<"h", "t", "t", "p", ":", "/", "/">>)
        + CountSplits(s, <<"h", "t", "t", "p", "s", ":", "/", "/">>)

\* Math.max(0, 100 - d * k) on a number that may be NaN
Axis(d, k) == IF d = NaN THEN NaN ELSE Num(Max(0, 100 - d.n * k))

\* momentum?.maintainerResponseDays !== null ? Math.max(0, 100 -
\* (momentum.maintainerResponseDays || 0) * 4) : 10. With momentum null the
\* optional chain gives undefined, which is not null, and the first branch
\* reads momentum.maintainerResponseDays
maintainerResponseAxis(momentum) ==
    IF (IF momentum = Null THEN Undefined ELSE momentum.maintainerResponseDays) # Null
    THEN IF momentum = Null THEN TypeError
         ELSE IF momentum.maintainerResponseDays = NaN THEN Num(100)
         ELSE Axis(momentum.maintainerResponseDays, 4)
    ELSE Num(10)

\* buildRadarStats(issueData, momentum, prHistory): the six axes, or the
\* TypeError thrown on the way. documentation is kept as a fraction over 50.
buildRadarStats(issueData, momentum, prHistory) ==
    LET daysSinceUpdate == IF momentum # Null THEN momentum.daysSinceUpdate ELSE Num(999)
        activity == Axis(daysSinceUpdate, 3)
        commentCount == IF issueData.comments = Undefined THEN 0 ELSE issueData.comments.n
        discussion == Num(Min(100, commentCount * 7))
        maintainerResponse == maintainerResponseAxis(momentum)
        prProgress == Num(Min(100, Len(prHistory) * 25))
        diff == IF issueData._difficulty = Undefined THEN 50 ELSE issueData._difficulty.score
        simplicity == Num(Max(0, 100 - diff))
        bodyLen == Len(BodyOrEmpty(issueData).s) + BodyOrEmpty(issueData).pad
        codeBlocks == CountSplits(BodyOrEmpty(issueData).s, <<BackTick, BackTick, BackTick>>)
        links == CountLinks(BodyOrEmpty(issueData).s)
        documentation == Ratio(Min(100 * 50, bodyLen + 50 * (codeBlocks * 8 + links * 5)), 50)
    IN  IF maintainerResponse = TypeError THEN TypeError
        ELSE [threw |-> FALSE,
              activity |-> activity, discussion |-> discussion,
              maintainerResponse |-> maintainerResponse, prProgress |-> prProgress,
              simplicity |-> simplicity, documentation |-> documentation]

\* The assessments the sidebar is given: none, or the floored day counts of one
RadarMomenta ==
    {[daysSinceUpdate |-> a, maintainerResponseDays |-> l] :
        a \in {Num(0), Num(5), Num(34), NaN},
        l \in {Null, Num(0), Num(3), Num(25), Num(30), NaN}}
        \cup {Null}

RadarInputs ==
    {[fn |-> "buildRadarStats",
      issueData |-> [body |-> b, comments |-> n, _difficulty |-> d],
      momentum |-> m,
      prHistory |-> [i \in 1 .. k |-> ApiPR(i)]] :
        b \in Bodies \cup {Body(<<"S", "e", "e", " ", "h", "t", "t", "p", "s", ":", "/", "/", "a", ".", "i", "o", " ", "a", "n", "d", " ", "h", "t", "t", "p", ":", "/", "/", "b", ".", "i", "o", " ", "f", "o", "r", " ", "l", "o", "g", "s">>, 0)},
        n \in {Undefined, Num(0), Num(12), Num(21)},
        d \in {Undefined, [score |-> 24]},
        m \in RadarMomenta, k \in 0 .. MaxPriorPRs}

BuildRadarStats ==
    /\ input.fn = "buildRadarStats"
    /\ output.fn = "none"
    /\ output' = [fn |-> "buildRadarStats",
                  stats |-> buildRadarStats(input.issueData, input.momentum, input.prHistory)]
    /\ UNCHANGED <<now, gatewayVars, input, pageVars>>

EngineInputs ==
    DetectPRsInputs \cup DetectClaimsInputs \cup MomentumInputs \cup ScanForkInputs
        \cup DifficultyInputs \cup StatusInputs \cup RadarInputs
        \cup BannerInputs

EngineInit ==
    /\ now = EngineEpoch
    /\ github_pat = Undefined
    /\ features = Undefined
    /\ popup = PopupLoaded(github_pat, features)
    /\ GatewayIdle
    /\ input \in EngineInputs
    /\ output = [fn |-> "none"]
    /\ PageIdle

EngineNext ==
    \/ DetectPRs
    \/ DetectClaims
    \/ EngineTick
    \/ CalcMomentumScore
    \/ ScanForkActivity
    \/ CalcDifficultyScore
    \/ ResolveStatus
    \/ BuildRadarStats
    \/ BuildBanner

SpecEngine == EngineInit /\ [][EngineNext]_vars

----------------------------------------------------------------------------
(* Claims on the engine's components, under SpecEngine *)

\* What the banner's colours are called in the design
StatusName(colour) ==
    CASE colour = "red" -> "active-pr"
      [] colour = "yellow" -> "claimed"
      [] colour = "green" -> "clear"

\* C5: the status is decided by (prs, claims, forks) alone, by a strict cascade:
\* prs non-empty gives active-pr whatever the claims and forks; otherwise any claim
\* (fresh or stale) or any fork gives claimed; otherwise clear. prs = [],
\* claims = [{isStale: false}], forks = [] gives claimed, not clear.
C5_StatusCascade ==
    output.fn = "status" =>
        LET fresh == \E i \in 1 .. Len(input.claims) : input.claims[i].isStale = FALSE
            stale == \E i \in 1 .. Len(input.claims) : input.claims[i].isStale = TRUE
            expected == IF input.prs # <<>> THEN "active-pr"
                        ELSE IF fresh THEN "claimed"
                        ELSE IF stale \/ input.forks # <<>> THEN "claimed"
                        ELSE "clear"
        IN  /\ StatusName(output.status) = expected
            /\ (input.prs = <<>> /\ Len(input.claims) = 1 /\ fresh /\ input.forks = <<>>)
                   => StatusName(output.status) = "claimed"

\* C5's case: the resolver ran on no PRs, one fresh claim and no forks.
C5_Witness ==
    /\ output.fn = "status"
    /\ input.prs = <<>>
    /\ input.claims = <<[claimer |-> "alice", isStale |-> FALSE]>>
    /\ input.forks = <<>>
    /\ output.status = "yellow"

SeqNumbers(prs) == [i \in 1 .. Len(prs) |-> prs[i].number]

\* The search stream that took part in the merge (none when the search failed)
SearchStream == IF input.response.success THEN input.response.data ELSE <<>>

\* The places of the search stream whose number did not occur earlier, neither in
\* the scrape stream nor before it in the search stream
KeptPlaces ==
    {i \in 1 .. Len(SearchStream) :
        /\ \A k \in 1 .. Len(input.anchors) : input.anchors[k] # SearchStream[i]
        /\ \A j \in 1 .. (i - 1) : SearchStream[j] # SearchStream[i]}

\* C6: the merged list is every scrape-sourced entry in its original order, then
\* exactly the search-sourced entries whose number did not occur earlier, in
\* search order; on a number in both streams the scrape record is kept.
\* Scrape [#3,#7] with search [#7,#9] gives [#3,#7,#9].
C6_MergeOrder ==
    output.fn = "detectPRs" =>
        LET out == output.prs
            n == Len(input.anchors)
        IN  /\ Len(out) = n + Cardinality(KeptPlaces)
            /\ \A i \in 1 .. n : out[i] = [number |-> input.anchors[i], source |-> "sidebar"]
            /\ \A i \in KeptPlaces :
                   out[n + Cardinality({j \in KeptPlaces : j <= i})]
                       = [number |-> SearchStream[i], source |-> "api"]
            /\ (input.anchors = <<3, 7>> /\ SearchStream = <<7, 9>>)
                   => SeqNumbers(out) = <<3, 7, 9>>

\* C6's case: scrape [#3,#7] merged with search [#7,#9].
C6_Witness ==
    /\ output.fn = "detectPRs"
    /\ input.anchors = <<3, 7>>
    /\ input.response = [success |-> TRUE, data |-> <<7, 9>>]
    /\ SeqNumbers(output.prs) = <<3, 7, 9>>
    /\ output.prs[2].source = "sidebar"

\* C7: the list detectPRs returns is unique by number, also for a scrape stream
\* or a search stream that holds a number more than once.
C7_UniqueByNumber ==
    output.fn = "detectPRs" =>
        \A i \in 1 .. Len(output.prs), j \in 1 .. Len(output.prs) :
            i # j => output.prs[i].number # output.prs[j].number

\* What does hold: the search-sourced part of the list has no number twice and
\* none of the scrape stream's numbers.
SearchPartUnique ==
    output.fn = "detectPRs" =>
        \A i \in 1 .. Len(output.prs), j \in 1 .. Len(output.prs) :
            (i # j /\ output.prs[j].source = "api")
                => output.prs[i].number # output.prs[j].number

\* C9: a claim is stale exactly when its age, now - claimedAt, exceeds 72 hours,
\* and staleness is monotonic in the evaluation time: evaluated again later, the
\* same claim's age is not smaller, and a claim that was stale is still stale.
C9_StaleExactlyOver72h ==
    output.fn = "detectClaims" =>
        \A i \in 1 .. Len(output.claims) :
            LET c == output.claims[i]
                ageSeconds == output.at - c.claimedAt.t
            IN  /\ c.isStale = (ageSeconds > 72 * 3600)
                /\ c.ageHours * 3600 <= ageSeconds
                /\ ageSeconds < (c.ageHours + 1) * 3600

C9_StalenessMonotonic ==
    []C9_StaleExactlyOver72h
    /\ [][ (output.fn = "detectClaims" /\ output'.fn = "detectClaims" /\ output.at < output'.at) =>
             /\ Len(output'.claims) = Len(output.claims)
             /\ \A i \in 1 .. Len(output.claims) :
                    /\ output'.claims[i].claimedAt = output.claims[i].claimedAt
                    /\ output'.claims[i].ageHours >= output.claims[i].ageHours
                    /\ output.claims[i].isStale => output'.claims[i].isStale
         ]_vars

\* C9's case: a claim made 72 hours before the first evaluation, fresh then, is
\* evaluated again a second later and is stale.
C9_Witness ==
    /\ output.fn = "detectClaims"
    /\ output.at = EngineEpoch + 1
    /\ \E i \in 1 .. Len(output.claims) :
          /\ output.claims[i].claimedAt.t = EngineEpoch - 72 * 3600
          /\ output.claims[i].isStale

\* The forks of the listing the scan was given
ListedForks == IF input.listing.success THEN input.listing.data ELSE <<>>

PushedWithin30Days(f) == EngineEpoch - f.pushed_at.t < 30 * 24 * 3600
PushedAfterCreation(f) == f.pushed_at.t # f.created_at.t

\* The branch names of the drawn forks that contain "123" or, in any case,
\* "fix" or "feature"
NamesMatching123 == {
    <<"f", "i", "x", "-", "1", "2", "3">>, <<"F", "e", "a", "t", "u", "r", "e", "/", "L", "o", "g", "i", "n">>, <<"d", "e", "v", "-", "1", "2", "3">>, <<"H", "O", "T", "F", "I", "X">> }

InResult(f) == \E k \in 1 .. Len(output.forks) : output.forks[k].owner = f.full_name

\* A fork in the result is a listed fork pushed less than 30 days ago, pushed to
\* after its creation, reported with one of its branches that matches; a fork
\* pushed 40 days ago is never in the result.
C10_OnlyQualifyingForks ==
    /\ \A k \in 1 .. Len(output.forks) :
          \E i \in 1 .. Len(ListedForks) :
              LET f == ListedForks[i]
              IN  /\ output.forks[k].owner = f.full_name
                  /\ PushedWithin30Days(f)
                  /\ PushedAfterCreation(f)
                  /\ output.forks[k].branchName \in NamesMatching123
                  /\ \E b \in 1 .. Len(f.branches) : f.branches[b] = output.forks[k].branchName
    /\ \A i \in 1 .. Len(ListedForks) :
          EngineEpoch - ListedForks[i].pushed_at.t = 40 * 24 * 3600 => ~InResult(ListedForks[i])

\* The claim's example fork: pushed 5 days ago, after its creation, with a branch
\* "fix-123", for issue 123
IsExampleFork(f) ==
    /\ EngineEpoch - f.pushed_at.t = 5 * 24 * 3600
    /\ PushedAfterCreation(f)
    /\ \E b \in 1 .. Len(f.branches) : f.branches[b] = <<"f", "i", "x", "-", "1", "2", "3">>

C8_ScoresInRange ==
    /\ output.fn = "calcDifficultyScore" =>
           /\ output.difficulty.score >= 0
           /\ output.difficulty.score <= 100
    /\ (output.fn = "calcMomentumScore" /\ output.momentum # Null) =>
           /\ output.momentum.score >= 0
           /\ output.momentum.score <= 100

\* C8's case: the difficulty rules that fired add up to more than 100 from the
\* baseline of 50, and the returned score is 100.
C8_Witness ==
    /\ output.fn = "calcDifficultyScore"
    /\ 50 + SumOfDeltas(output.difficulty.signals) > 100
    /\ output.difficulty.score = 100

\* The difficulty rules that fired add up to less than 0 and the score is 0
C8_DifficultyFloorReached ==
    /\ output.fn = "calcDifficultyScore"
    /\ 50 + SumOfDeltas(output.difficulty.signals) < 0
    /\ output.difficulty.score = 0

\* The momentum terms add up to -10 (no update for 90 days, no comments, no
\* maintainer reply) and the score is 0
C8_MomentumFloorReached ==
    /\ output.fn = "calcMomentumScore"
    /\ output.momentum # Null
    /\ output.momentum.daysSinceUpdate = Num(90)
    /\ output.momentum.commentCount = Num(0)
    /\ output.momentum.maintainerResponseDays = Null
    /\ output.momentum.score = 0

\* The momentum terms add up to 110 (updated within a day, more than 10
\* comments, a maintainer reply within a day) and the score is 100
C8_MomentumCeilingReached ==
    /\ output.fn = "calcMomentumScore"
    /\ output.momentum # Null
    /\ output.momentum.daysSinceUpdate = Num(0)
    /\ output.momentum.commentCount = Num(11)
    /\ output.momentum.maintainerResponseDays = Num(0)
    /\ output.momentum.score = 100

----------------------------------------------------------------------------
(* The page: init, the loader, the banner, the float button and the sidebar *)

MaxRuns == 2

\* for (let i = 0; i < 10; i++) in injectBanner
MaxTargetTries == 10

Digits == {"0", "1", "2", "3", "4", "5", "6", "7", "8", "9"}

\* /^\d+$/.test(segment)
IsDigits(segment) == segment # <<>> /\ \A i \in 1 .. Len(segment) : segment[i] \in Digits

\* The negation of init's early return, path being pathname.split('/')
IsIssuePath(path) ==
    ~(Len(path) < 5 \/ path[4] # <<"i", "s", "s", "u", "e", "s">> \/ ~IsDigits(path[5]))

\* /o/r/issues/1, /o/r/issues/2, /o/r/issues/new and /o/r/pulls, split at '/'
Pathnames == {
    <<<<>>, <<"o">>, <<"r">>, <<"i", "s", "s", "u", "e", "s">>, <<"1">>>>,
    <<<<>>, <<"o">>, <<"r">>, <<"i", "s", "s", "u", "e", "s">>, <<"2">>>>,
    <<<<>>, <<"o">>, <<"r">>, <<"i", "s", "s", "u", "e", "s">>, <<"n", "e", "w">>>>,
    <<<<>>, <<"o">>, <<"r">>, <<"p", "u", "l", "l", "s">>>> }

\* What the document holds for the selectors '#partial-discussion-header',
\* '.gh-header-show', '.gh-header' and 'main': nothing yet, or main with the
\* issue's header inside it
Targets == {"none", "header"}

(* --- What the site answers: issue 1 has an open pull request, an assignee and
       a fork with a fix branch; issue 2 has a claiming comment, and the request
       for it is rate limited --- *)

\* The pull-request anchors of the Development section of the page shown
PageAnchorsOf(path) == IF IsIssuePath(path) /\ path[5] = <<"1">> THEN <<7>> ELSE <<>>

\* The .timeline-comment-group elements of the page shown
PageGroupsOf(path) ==
    IF IsIssuePath(path) /\ path[5] = <<"2">>
    THEN <<[body |-> Str(<<"I", "'", "l", "l", " ", "t", "a", "k", "e", " ", "t", "h", "i", "s">>),
            datetime |-> ISOString(EngineEpoch - SecondsPerHour),
            author |-> Str(<<"a", "l", "i", "c", "e">>)]>>
    ELSE <<>>

SearchResponseOf(issueNumber) ==
    [success |-> TRUE, data |-> IF issueNumber = <<"1">> THEN <<7>> ELSE <<>>]

\* {}: an object none of whose properties is defined
EmptyObject ==
    [title |-> Undefined, body |-> Undefined, labels |-> Undefined, comments |-> Undefined,
     updated_at |-> Undefined, created_at |-> Undefined, assignees |-> Undefined]

\* The assignees array of the issue; each assignee carries, as lookup, what
\* githubAPI gives for the search of the assignee's open pull requests
Assignees(items) == [kind |-> "array", items |-> items]

\* The issue the API answers with when the request for it succeeds
IssueDataOf(issueNumber) ==
    IF issueNumber = <<"1">>
    THEN [title |-> Str(<<"F", "i", "x", " ", "t", "y", "p", "o", " ", "i", "n", " ", "R", "E", "A", "D", "M", "E">>),
          body |-> Body(<<"s", "m", "a", "l", "l", " ", "d", "o", "c", "s", " ", "f", "i", "x">>, 0),
          labels |-> Labels(<<<<"b", "u", "g">>>>),
          comments |-> Num(1),
          updated_at |-> ISOString(EngineEpoch - SecondsPerDay),
          created_at |-> ISOString(IssueCreatedAt),
          assignees |-> Assignees(<<[login |-> "carol",
                                     lookup |-> [success |-> TRUE, total_count |-> 9]]>>)]
    ELSE IF issueNumber = <<"2">>
    THEN [title |-> Str(<<"R", "e", "f", "a", "c", "t", "o", "r", " ", "a", "s", "y", "n", "c", " ", "s", "c", "h", "e", "d", "u", "l", "e", "r">>),
          body |-> Body(<<"d", "e", "a", "d", "l", "o", "c", "k", " ", "u", "n", "d", "e", "r", " ", "l", "o", "a", "d">>, 1200),
          labels |-> Labels(<<<<"e", "n", "h", "a", "n", "c", "e", "m", "e", "n", "t">>>>),
          comments |-> Num(12),
          updated_at |-> ISOString(EngineEpoch - 10 * SecondsPerDay),
          created_at |-> ISOString(IssueCreatedAt),
          assignees |-> Undefined]
    ELSE [title |-> Str(<<"C", "r", "a", "s", "h", " ", "o", "n", " ", "s", "t", "a", "r", "t">>),
          body |-> Undefined,
          labels |-> Undefined,
          comments |-> Num(0),
          updated_at |-> ISOString(EngineEpoch - 95 * SecondsPerDay),
          created_at |-> ISOString(IssueCreatedAt),
          assignees |-> Assignees(<<>>)]

IssueResponseOf(issueNumber) ==
    IF issueNumber # <<"2">>
    THEN [success |-> TRUE, data |-> IssueDataOf(issueNumber)]
    ELSE [success |-> FALSE, error |-> "Rate limited"]

CommentsResponseOf(issueNumber) ==
    [success |-> TRUE,
     data |-> <<[author_association |-> "OWNER",
                 created_at |-> ISOString(IssueCreatedAt + SecondsPerDay)]>>]

\* The forks the API lists when the request for them succeeds
ForksDataOf(issueNumber) ==
    IF issueNumber = <<"1">>
    THEN <<ForkOf(ForkKind(5 * SecondsPerDay, TRUE, <<<<"f", "i", "x", "-", "1">>>>, TRUE), 1)>>
    ELSE IF issueNumber = <<"2">>
    THEN <<ForkOf(PlainFork, 1)>>
    ELSE <<ForkOf(ForkKind(2 * SecondsPerDay, TRUE, <<<<"f", "i", "x", "-", "3">>>>, TRUE), 1),
           ForkOf(ForkKind(40 * SecondsPerDay, TRUE, <<<<"f", "i", "x", "-", "3">>>>, TRUE), 2),
           ForkOf(ForkKind(3 * SecondsPerDay, TRUE, <<<<"m", "a", "i", "n">>, <<"f", "e", "a", "t", "u", "r", "e", "-", "x">>>>, TRUE), 3)>>

ForkListingOf(issueNumber) == [success |-> TRUE, data |-> ForksDataOf(issueNumber)]

(* --- Feature 5: contributor workload --- *)

\* The array checkContributorWorkload resolves to
Workloads(items) == [kind |-> "array", items |-> items]

\* checkContributorWorkload on what githubAPI gave for the issue
checkContributorWorkload(issueResponse) ==
    IF ~issueResponse.success THEN Null
    ELSE LET assignees == IF issueResponse.data.assignees = Undefined THEN <<>>
                          ELSE issueResponse.data.assignees.items
         IN  IF Len(assignees) = 0 THEN Null
             ELSE Workloads([i \in 1 .. Len(assignees) |->
                     IF assignees[i].lookup.success
                     THEN [login |-> assignees[i].login,
                           openPRCount |-> Num(assignees[i].lookup.total_count),
                           overloaded |-> assignees[i].lookup.total_count > 8]
                     ELSE [login |-> assignees[i].login,
                           openPRCount |-> Null,
                           overloaded |-> FALSE]])

(* --- The elements the script puts into the document --- *)

\* The loader and the banner share the id oss-tc-banner; data is the evaluation
\* whose data object the element's listeners hold, parent the target it is in
Loader == [kind |-> "loader", status |-> "none", data |-> 0, parent |-> "main"]
Banner(status, r, parent) == [kind |-> "banner", status |-> status, data |-> r, parent |-> parent]

\* document.getElementById('oss-tc-banner')?.remove(): the first in document order
RemoveFirst(elements) == IF elements = <<>> THEN <<>> ELSE Tail(elements)

InMain(el) == el.parent = "main"
InHeader(el) == el.parent = "header"

\* target.prepend(el): main's own children come before the header's in document
\* order
PrependTo(parent, el, elements) ==
    IF parent = "main" THEN <<el>> \o elements
    ELSE SelectSeq(elements, InMain) \o <<el>> \o SelectSeq(elements, InHeader)

\* showLoader: nothing when a banner exists; the target is the first element in
\* document order that matches any of the selectors, which is main
showLoader(elements, targets) ==
    IF elements # <<>> THEN elements
    ELSE IF targets # "none" THEN PrependTo("main", Loader, elements)
    ELSE elements

\* The target injectBanner's selector list finds, the header before main
BannerTarget(targets) ==
    IF targets = "header" THEN "header" ELSE "none"

\* The button injectFloatBtn appends
FloatBtn(r) == [data |-> r, label |-> "Analytics"]

\* An evaluation that has run up to its first await: the path's issue number, the
\* pull requests detectPRs scraped from the page, and the earlier evaluations
\* that had not finished
StartedRun(path, earlier) ==
    [pc |-> "join1",
     issueNumber |-> path[5],
     anchors |-> PageAnchorsOf(path),
     overlapped |-> {q \in 1 .. Len(earlier) : earlier[q].pc # "done"},
     prs |-> <<>>, momentum |-> Null, claims |-> <<>>, forks |-> <<>>,
     workloads |-> Null, difficulty |-> Null, status |-> "none", tries |-> 0]

(* --- init and what follows it --- *)

\* The script has run: init() was called on the page loaded
InitPage ==
    /\ now = EngineEpoch
    /\ github_pat = Undefined
    /\ features = Undefined
    /\ popup = PopupLoaded(github_pat, features)
    /\ GatewayIdle
    /\ EngineIdle
    /\ location \in Pathnames
    /\ mount \in Targets
    /\ banners = IF IsIssuePath(location) THEN showLoader(<<>>, mount) ELSE <<>>
    /\ floatBtn = Null
    /\ sidebar = Null
    /\ runs = IF IsIssuePath(location) THEN <<StartedRun(location, <<>>)>> ELSE <<>>

\* turbo:render or pjax:end after a navigation to path: the page's content was
\* swapped for a new one holding the given targets, or was kept; then init runs
\* up to its first await
TurboRender(path, swap, targets) ==
    LET kept == IF swap THEN <<>> ELSE banners
        held == IF swap THEN targets ELSE mount
    IN  /\ path # location
        /\ location' = path
        /\ mount' = held
        /\ IF IsIssuePath(path)
           THEN /\ Len(runs) < MaxRuns
                /\ banners' = showLoader(RemoveFirst(kept), held)
                /\ sidebar' = Null
                /\ floatBtn' = Null
                /\ runs' = Append(runs, StartedRun(path, runs))
           ELSE /\ banners' = kept
                /\ sidebar' = IF swap THEN Null ELSE sidebar
                /\ floatBtn' = IF swap THEN Null ELSE floatBtn
                /\ runs' = runs
        /\ UNCHANGED <<now, gatewayVars, engineVars>>

\* A target is rendered into the document
MountAppears(targets) ==
    /\ mount = "none"
    /\ targets # "none"
    /\ mount' = targets
    /\ UNCHANGED <<now, gatewayVars, engineVars, location, banners, floatBtn, sidebar, runs>>

\* Promise.all([detectPRs, calcMomentumScore]) resolves; detectClaims reads the
\* document as it is now
Join1(r) ==
    /\ r \in 1 .. Len(runs)
    /\ runs[r].pc = "join1"
    /\ runs' = [runs EXCEPT ![r] =
           [runs[r] EXCEPT
               !.pc = "join2",
               !.prs = detectPRs(runs[r].anchors, SearchResponseOf(runs[r].issueNumber)),
               !.momentum = calcMomentumScore(IssueResponseOf(runs[r].issueNumber),
                                              CommentsResponseOf(runs[r].issueNumber)),
               !.claims = detectClaims(PageGroupsOf(location))]]
    /\ UNCHANGED <<now, gatewayVars, engineVars, location, mount, banners, floatBtn, sidebar>>

\* Promise.all([scanForkActivity, checkContributorWorkload]) resolves: the
\* difficulty and the status are computed and injectBanner runs up to its first
\* wait; with a target at hand it completes and injectFloatBtn follows (no event
\* and no timer can run between the two)
Join2(r) ==
    /\ r \in 1 .. Len(runs)
    /\ runs[r].pc = "join2"
    /\ LET run == runs[r]
           forks == scanForkActivity(ForkListingOf(run.issueNumber), run.issueNumber)
           issueData == IF run.momentum # Null THEN IssueResponseOf(run.issueNumber).data
                        ELSE EmptyObject
           status == Status(run.prs, run.claims, forks)
           data == [run EXCEPT
                       !.forks = forks,
                       !.workloads = checkContributorWorkload(IssueResponseOf(run.issueNumber)),
                       !.difficulty = calcDifficultyScore(issueData, run.prs),
                       !.status = status]
           target == BannerTarget(mount)
       IN  IF target # "none"
           THEN /\ banners' = PrependTo(target, Banner(status, r, target), RemoveFirst(banners))
                /\ floatBtn' = FloatBtn(r)
                /\ runs' = [runs EXCEPT ![r] = [data EXCEPT !.pc = "done"]]
           ELSE /\ banners' = RemoveFirst(banners)
                /\ floatBtn' = floatBtn
                /\ runs' = [runs EXCEPT ![r] = [data EXCEPT !.pc = "wait", !.tries = 1]]
    /\ UNCHANGED <<now, gatewayVars, engineVars, location, mount, sidebar>>

\* A 300 ms wait of injectBanner ends: the targets are looked for again, unless
\* it was the tenth wait; then injectFloatBtn
TimerFires(r) ==
    /\ r \in 1 .. Len(runs)
    /\ runs[r].pc = "wait"
    /\ LET target == IF runs[r].tries < MaxTargetTries THEN BannerTarget(mount) ELSE "none"
       IN  IF target # "none"
           THEN /\ banners' = PrependTo(target, Banner(runs[r].status, r, target), banners)
                /\ floatBtn' = FloatBtn(r)
                /\ runs' = [runs EXCEPT ![r].pc = "done"]
           ELSE IF runs[r].tries < MaxTargetTries
           THEN /\ runs' = [runs EXCEPT ![r].tries = @ + 1]
                /\ UNCHANGED <<banners, floatBtn>>
           ELSE /\ floatBtn' = FloatBtn(r)
                /\ runs' = [runs EXCEPT ![r].pc = "done"]
                /\ UNCHANGED banners
    /\ UNCHANGED <<now, gatewayVars, engineVars, location, mount, sidebar>>

\* toggleSidebar(data), data being the data object of evaluation r
toggleSidebar(r) ==
    IF sidebar # Null
    THEN /\ sidebar' = Null
         /\ floatBtn' = IF floatBtn # Null THEN [floatBtn EXCEPT !.label = "Analytics"] ELSE floatBtn
    ELSE IF maintainerResponseAxis(runs[r].momentum) = TypeError
    THEN \* buildSidebar throws in buildRadarStats before anything is appended
         /\ UNCHANGED <<sidebar, floatBtn>>
    ELSE /\ sidebar' = [data |-> r]
         /\ floatBtn' = IF floatBtn # Null THEN [floatBtn EXCEPT !.label = "Close"] ELSE floatBtn

\* A click on the open-sidebar button of the banner at place i
ClickOpenSidebar(i) ==
    /\ i \in 1 .. Len(banners)
    /\ banners[i].kind = "banner"
    /\ toggleSidebar(banners[i].data)
    /\ UNCHANGED <<now, gatewayVars, engineVars, location, mount, banners, runs>>

\* A click on the float button
ClickFloatBtn ==
    /\ floatBtn # Null
    /\ toggleSidebar(floatBtn.data)
    /\ UNCHANGED <<now, gatewayVars, engineVars, location, mount, banners, runs>>

\* A click on the sidebar's close button
ClickSidebarClose ==
    /\ sidebar # Null
    /\ toggleSidebar(sidebar.data)
    /\ UNCHANGED <<now, gatewayVars, engineVars, location, mount, banners, runs>>

NextInit ==
    \/ \E path \in Pathnames, swap \in BOOLEAN, targets \in Targets : TurboRender(path, swap, targets)
    \/ \E targets \in Targets : MountAppears(targets)
    \/ \E r \in 1 .. MaxRuns : Join1(r)
    \/ \E r \in 1 .. MaxRuns : Join2(r)
    \/ \E r \in 1 .. MaxRuns : TimerFires(r)
    \/ \E i \in 1 .. MaxRuns : ClickOpenSidebar(i)
    \/ ClickFloatBtn
    \/ ClickSidebarClose

SpecInit == InitPage /\ [][NextInit]_vars

----------------------------------------------------------------------------
(* Claims on the page, under SpecInit *)

\* The evaluations whose data the elements now in the document hold: the
\* banners', the float button's and the sidebar's
OnPage ==
    {banners[i].data : i \in {k \in 1 .. Len(banners) : banners[k].kind = "banner"}}
        \cup (IF floatBtn # Null THEN {floatBtn.data} ELSE {})
        \cup (IF sidebar # Null THEN {sidebar.data} ELSE {})

\* The evaluation started last
Latest == Len(runs)

\* The latest evaluation was started for another issue while evaluation q was
\* still awaiting its remote calls
StartedOver(q) ==
    /\ q \in runs[Latest].overlapped
    /\ runs[q].issueNumber # runs[Latest].issueNumber

\* C2: when init is triggered again for a new issue page while an earlier init is
\* still awaiting its remote calls, the earlier evaluation's results are
\* discarded: once both have finished, the banner, the float button and the
\* sidebar data on the page are those of the most recently started evaluation,
\* never those of the older one.
C2_LatestEvaluationWins ==
    (/\ Len(runs) >= 2
     /\ \E q \in 1 .. (Latest - 1) : StartedOver(q)
     /\ \A r \in 1 .. Len(runs) : runs[r].pc = "done")
        => \A r \in OnPage : r = Latest

\* The latest evaluation's own results are on the page after both finished
C2_LatestShown ==
    /\ Len(runs) >= 2
    /\ \E q \in 1 .. (Latest - 1) : StartedOver(q)
    /\ \A r \in 1 .. Len(runs) : runs[r].pc = "done"
    /\ OnPage = {Latest}

----------------------------------------------------------------------------
(* The settings popup (popup.js) *)

\* featureKeys
RECURSIVE TrimStart(_)
TrimStart(s) == IF s # <<>> /\ Head(s) = " " THEN TrimStart(Tail(s)) ELSE s

RECURSIVE TrimEnd(_)
TrimEnd(s) ==
    IF s # <<>> /\ s[Len(s)] = " " THEN TrimEnd(SubSeq(s, 1, Len(s) - 1)) ELSE s

\* String.prototype.trim, for the blanks that occur here
trim(s) == TrimEnd(TrimStart(s))

\* The prefix looked for anywhere in the string
startsWith_Anywhere(s, prefix) == includes(s, prefix)

\* String.prototype.startsWith
startsWith(s, prefix) == Len(s) >= Len(prefix) /\ SubSeq(s, 1, Len(prefix)) = prefix

\* if (pat && !pat.startsWith('ghp_') && !pat.startsWith('github_pat_')): the
\* save is refused
PATRefused(pat) ==
    /\ pat # <<>>
    /\ ~startsWith(pat, <<"g", "h", "p", "_">>)
    /\ ~startsWith(pat, <<"g", "i", "t", "h", "u", "b", "_", "p", "a", "t", "_">>)

\* What is typed into the token field
PATInputs == {
    <<>>,
    <<" ", "g", "h", "p", "_", "a", " ">>,
    <<"g", "i", "t", "h", "u", "b", "_", "p", "a", "t", "_", "b">>,
    <<"a", "b", "c">>,
    <<"x", "g", "h", "p", "_", "a">> }

\* The states of the five checkboxes: all checked, PR detection unchecked, the
\* fork scan and the workload check unchecked, none checked
CheckboxStates ==
    {[k \in FeatureKeySet |-> k \notin off] :
        off \in {{}, {"pr"}, {"forks", "workload"}, FeatureKeySet}}

\* A token typed with blanks around it, and every checkbox checked
TokenTyped == <<" ", "g", "h", "p", "_", "a", " ">>
AllChecked == [k \in FeatureKeySet |-> TRUE]

\* The click handler of the Save button, on what the token field and the
\* checkboxes hold when it is clicked
Save(typed, checked) ==
    LET pat == trim(typed)
    IN  /\ IF PATRefused(pat)
           THEN /\ popup' = [patInput |-> typed, checked |-> checked,
                             statusText |-> "PAT should start with ghp_"]
                /\ UNCHANGED <<github_pat, features>>
           ELSE /\ github_pat' = Str(pat)
                /\ features' = checked
                /\ popup' = [patInput |-> typed, checked |-> checked,
                             statusText |-> IF pat # <<>> THEN "PAT configured 5000 req/hr"
                                            ELSE "No PAT 60 req/hr"]
        /\ UNCHANGED <<now, local, calls, engineVars, pageVars>>


(* --- The cache gateway while the settings are being saved --- *)

\* What GitHub answers to a request: the payload for the url as it is seen with
\* the Authorization header fetchGitHub sent (token pat, or none for a null pat)
Authorized(payload, pat) ==
    [kind |-> "json", body |-> payload.body, authorization |-> pat]

\* The response to the FETCH_GITHUB message of call c, which carried the pat
\* this call read
ResponseUnder(c, status, data) ==
    /\ calls[c].pc = "sent"
    /\ githubAPIOnResponse(c, fetchGitHub(status, Authorized(data, calls[c].pat)))
    /\ UNCHANGED <<now, github_pat, features, popup, engineVars, pageVars>>

NextCredential ==
    \/ \E c \in CallIds, url \in Urls : Call(c, url)
    \/ \E c \in CallIds : GetPATReturn(c)
    \/ \E c \in CallIds : GetCacheReturn(c)
    \/ \E c \in CallIds, status \in Statuses, data \in Payloads : ResponseUnder(c, status, data)
    \/ Tick
    \/ \E typed \in PATInputs : Save(typed, AllChecked)

SpecCredential == Init /\ [][NextCredential]_vars

(* --- The popup alone --- *)

\* The popup is opened on whatever was saved before
PopupInit ==
    /\ now = 0
    /\ github_pat \in StoredPATs
    /\ features \in {Undefined} \cup CheckboxStates
    /\ popup = PopupLoaded(github_pat, features)
    /\ GatewayIdle
    /\ EngineIdle
    /\ PageIdle

NextPopup == \E typed \in PATInputs, checked \in CheckboxStates : Save(typed, checked)

SpecPopup == PopupInit /\ [][NextPopup]_vars

----------------------------------------------------------------------------
(* One evaluation, remote call by remote call *)

\* /o/r/issues/1, /o/r/issues/2 and /o/r/issues/3, split at '/'
EvalPathnames ==
    {<<<<>>, <<"o">>, <<"r">>, <<"i", "s", "s", "u", "e", "s">>, <<n>>>> : n \in {"1", "2", "3"}}

\* The githubAPI calls init's components make once each: detectPRs' search,
\* calcMomentumScore's issue and comments, scanForkActivity's fork listing and
\* checkContributorWorkload's issue
CallNames == {"search", "issue", "comments", "forks", "workloadIssue"}

\* Where a call stands: not made, request in flight, answered from the cache
\* (no request), or returned with or without success
Unsent == [state |-> "unsent", ok |-> FALSE]
Pending == [state |-> "pending", ok |-> FALSE]
Cached == [state |-> "cached", ok |-> TRUE]
Returned(ok) == [state |-> "returned", ok |-> ok]

\* Whether the service worker answers the status with success
Succeeds(status) == fetchGitHub(status, Null).success

\* init up to its first await on an issue page: detectPRs has scraped the page and
\* sent its search, calcMomentumScore has sent its two requests
StartedEvaluation(path) ==
    [pc |-> "stage1",
     issueNumber |-> path[5],
     anchors |-> PageAnchorsOf(path),
     flags |-> features,
     dispatched |-> {"pr", "momentum"},
     call |-> [c \in CallNames |-> IF c \in {"search", "issue", "comments"} THEN Pending ELSE Unsent],
     settled |-> {},
     queue |-> <<>>, lookups |-> <<>>,
     assignees |-> <<>>, assigneeOk |-> <<>>,   \* per assignee: "pending", "ok", "failed"
     prs |-> <<>>, momentum |-> Null, claims |-> <<>>, forks |-> <<>>,
     workloads |-> Null, difficulty |-> Null, status |-> "none", tries |-> 0]

\* detectPRs after its search returned
AfterSearch(run, status) ==
    [run EXCEPT
        !.call["search"] = Returned(Succeeds(status)),
        !.prs = detectPRs(run.anchors, fetchGitHub(status, SearchResponseOf(run.issueNumber).data)),
        !.settled = @ \cup {"pr"}]

\* calcMomentumScore after one of its two requests returned: Promise.all rejects
\* on the first failure and resolves when both have succeeded
AfterMomentumCall(run, name, status) ==
    LET call == [run.call EXCEPT ![name] = Returned(Succeeds(status))]
        n == run.issueNumber
    IN  IF "momentum" \in run.settled THEN [run EXCEPT !.call = call]
        ELSE IF ~Succeeds(status)
        THEN [run EXCEPT !.call = call, !.momentum = Null, !.settled = @ \cup {"momentum"}]
        ELSE IF call["issue"] = Returned(TRUE) /\ call["comments"] = Returned(TRUE)
        THEN [run EXCEPT
                 !.call = call,
                 !.momentum = calcMomentumScore([success |-> TRUE, data |-> IssueDataOf(n)],
                                                CommentsResponseOf(n)),
                 !.settled = @ \cup {"momentum"}]
        ELSE [run EXCEPT !.call = call]

\* scanForkActivity after the fork listing returned: the first five active forks
\* are queued for their branch lookups
AfterForks(run, status) ==
    LET response == fetchGitHub(status, ForksDataOf(run.issueNumber))
        queue == IF response.success THEN FirstFive(SelectActive(response.data)) ELSE <<>>
    IN  [run EXCEPT
            !.call["forks"] = Returned(response.success),
            !.queue = queue,
            !.forks = <<>>,
            !.settled = IF queue = <<>> THEN @ \cup {"forks"} ELSE @]

\* The scan with a failed branch lookup ending it without matches
AfterBranches_Fatal(run, status) ==
    IF Succeeds(status)
    THEN [run EXCEPT
             !.queue = Tail(@),
             !.lookups = Append(@, TRUE),
             !.forks = @ \o ScanForks(<<Head(run.queue)>>, run.issueNumber),
             !.settled = IF Tail(run.queue) = <<>> THEN @ \cup {"forks"} ELSE @]
    ELSE [run EXCEPT
             !.queue = <<>>,
             !.lookups = Append(@, FALSE),
             !.forks = <<>>,
             !.settled = @ \cup {"forks"}]

\* scanForkActivity after the branch lookup of the fork at the head of the queue
\* returned
AfterBranches(run, status) ==
    LET fork == Head(run.queue)
        looked == [fork EXCEPT !.lookup = fetchGitHub(status, fork.branches)]
    IN  [run EXCEPT
            !.queue = Tail(@),
            !.lookups = Append(@, Succeeds(status)),
            !.forks = @ \o ScanForks(<<looked>>, run.issueNumber),
            !.settled = IF Tail(run.queue) = <<>> THEN @ \cup {"forks"} ELSE @]

\* checkContributorWorkload after its issue call returned
AfterWorkloadIssue(run, status) ==
    LET response == fetchGitHub(status, IssueDataOf(run.issueNumber))
        assignees == IF ~response.success \/ response.data.assignees = Undefined THEN <<>>
                     ELSE response.data.assignees.items
    IN  [run EXCEPT
            !.call["workloadIssue"] = Returned(response.success),
            !.assignees = assignees,
            !.assigneeOk = [i \in 1 .. Len(assignees) |-> "pending"],
            !.workloads = Null,
            !.settled = IF assignees = <<>> THEN @ \cup {"workload"} ELSE @]

\* checkContributorWorkload after the search for assignee i returned: Promise.all
\* resolves when every assignee's search has returned
AfterAssignee(run, i, status) ==
    LET state == [run.assigneeOk EXCEPT ![i] = IF Succeeds(status) THEN "ok" ELSE "failed"]
        answered == [k \in 1 .. Len(run.assignees) |->
                        [run.assignees[k] EXCEPT
                            !.lookup = IF state[k] = "ok" THEN @
                                       ELSE [success |-> FALSE, total_count |-> 0]]]
    IN  IF \E k \in 1 .. Len(state) : state[k] = "pending"
        THEN [run EXCEPT !.assigneeOk = state]
        ELSE [run EXCEPT
                 !.assigneeOk = state,
                 !.workloads = checkContributorWorkload(
                                   [success |-> TRUE, data |-> [assignees |-> Assignees(answered)]]),
                 !.settled = @ \cup {"workload"}]

\* The first Promise.all of init has resolved
Stage1Complete(run) == {"pr", "momentum"} \subseteq run.settled

\* The second join not waiting for the workload check
Stage2Complete_ForksOnly(run) == "forks" \in run.settled

\* The second Promise.all of init has resolved
Stage2Complete(run) == {"forks", "workload"} \subseteq run.settled

\* const claims = detectClaims(); then scanForkActivity and
\* checkContributorWorkload are called: the fork listing is requested, and the
\* issue is requested again unless the cache holds it
StartStage2(run) ==
    [run EXCEPT
        !.pc = "stage2",
        !.claims = detectClaims(PageGroupsOf(location)),
        !.dispatched = @ \cup {"claims", "forks", "workload"},
        !.call["forks"] = Pending,
        !.call["workloadIssue"] = IF run.call["issue"] = Returned(TRUE) THEN Cached ELSE Pending]

\* The difficulty and the status, computed from the joined results
Resolved(run) ==
    [run EXCEPT
        !.pc = "done",
        !.difficulty = calcDifficultyScore(
                           IF run.momentum # Null THEN IssueDataOf(run.issueNumber) ELSE EmptyObject,
                           run.prs),
        !.status = Status(run.prs, run.claims, run.forks)]

\* init resumes after a component settled: past the first join it starts the
\* second stage, past the second it resolves the status and injects the banner
\* and the float button (the page holds a target)
Resume(after) ==
    LET run == IF after.pc = "stage1" /\ Stage1Complete(after) THEN StartStage2(after)
               ELSE IF after.pc = "stage2" /\ Stage2Complete(after) THEN Resolved(after)
               ELSE after
    IN  /\ runs' = <<run>>
        /\ IF run.pc = "done" /\ after.pc # "done"
           THEN /\ banners' = PrependTo(BannerTarget(mount),
                                        Banner(run.status, 1, BannerTarget(mount)),
                                        RemoveFirst(banners))
                /\ floatBtn' = FloatBtn(1)
           ELSE UNCHANGED <<banners, floatBtn>>
        /\ UNCHANGED <<now, gatewayVars, engineVars, location, mount, sidebar>>

SearchReturns(status) ==
    /\ runs[1].call["search"] = Pending
    /\ Resume(AfterSearch(runs[1], status))

IssueReturns(status) ==
    /\ runs[1].call["issue"] = Pending
    /\ Resume(AfterMomentumCall(runs[1], "issue", status))

CommentsReturns(status) ==
    /\ runs[1].call["comments"] = Pending
    /\ Resume(AfterMomentumCall(runs[1], "comments", status))

ForksReturn(status) ==
    /\ runs[1].call["forks"] = Pending
    /\ Resume(AfterForks(runs[1], status))

BranchesReturn(status) ==
    /\ runs[1].queue # <<>>
    /\ Resume(AfterBranches(runs[1], status))

\* The workload's issue call returns: from the cache, or with the response to
\* its own request
WorkloadIssueReturns(status) ==
    /\ \/ runs[1].call["workloadIssue"] = Pending
       \/ runs[1].call["workloadIssue"] = Cached /\ status = 200
    /\ Resume(AfterWorkloadIssue(runs[1], status))

AssigneeReturns(i, status) ==
    /\ i \in 1 .. Len(runs[1].assigneeOk)
    /\ runs[1].assigneeOk[i] = "pending"
    /\ Resume(AfterAssignee(runs[1], i, status))

\* The script has run on an issue page that is rendered, with whatever settings
\* were saved before
EvalInit ==
    /\ now = EngineEpoch
    /\ github_pat \in StoredPATs
    /\ features \in {Undefined} \cup CheckboxStates
    /\ popup = PopupLoaded(github_pat, features)
    /\ GatewayIdle
    /\ EngineIdle
    /\ location \in EvalPathnames
    /\ mount = "header"
    /\ banners = showLoader(<<>>, mount)
    /\ floatBtn = Null
    /\ sidebar = Null
    /\ runs = <<StartedEvaluation(location)>>

NextEval ==
    \/ \E status \in Statuses : SearchReturns(status)
    \/ \E status \in Statuses : IssueReturns(status)
    \/ \E status \in Statuses : CommentsReturns(status)
    \/ \E status \in Statuses : ForksReturn(status)
    \/ \E status \in Statuses : BranchesReturn(status)
    \/ \E status \in Statuses : WorkloadIssueReturns(status)
    \/ \E i \in 1 .. Len(runs[1].assigneeOk), status \in Statuses : AssigneeReturns(i, status)
    \/ \E checked \in CheckboxStates : Save(TokenTyped, checked)

SpecEval == EvalInit /\ [][NextEval]_vars

----------------------------------------------------------------------------
(* Claims on one evaluation, under SpecEval *)

\* The component a remote call belongs to, by its feature key
ComponentOf(call) ==
    CASE call = "search" -> "pr"
      [] call \in {"issue", "comments"} -> "momentum"
      [] call = "forks" -> "forks"
      [] call = "workloadIssue" -> "workload"

\* C11: during an evaluation each component (PR detection, claim detection,
\* momentum, fork scan, workload check) runs, and issues remote requests, only if
\* its feature flag in the settings stored when the evaluation started is
\* enabled; a component whose flag was saved as false is not run.
C11_OnlyEnabledComponentsRun ==
    \A key \in FeatureKeySet :
        ~Enabled(runs[1].flags, key) =>
            /\ key \notin runs[1].dispatched
            /\ \A call \in CallNames : ComponentOf(call) = key => runs[1].call[call] = Unsent

\* Every component ran to its end although every flag had been saved as false
C11_AllRanWhileDisabled ==
    /\ runs[1].flags # Undefined
    /\ \A key \in FeatureKeySet : ~runs[1].flags[key]
    /\ runs[1].pc = "done"
    /\ runs[1].dispatched = FeatureKeySet

\* No request of the evaluation is outstanding
Quiescent ==
    /\ \A call \in CallNames : runs[1].call[call].state \notin {"pending", "cached"}
    /\ runs[1].queue = <<>>
    /\ \A i \in 1 .. Len(runs[1].assigneeOk) : runs[1].assigneeOk[i] # "pending"

\* The forks whose branches the scan asks for, and those among them whose lookup
\* did not fail
Candidates == FirstFive(SelectActive(ForksDataOf(runs[1].issueNumber)))
LookedUp ==
    LET kept == {i \in 1 .. Len(runs[1].lookups) : runs[1].lookups[i]}
        RECURSIVE Pick(_)
        Pick(i) == IF i > Len(runs[1].lookups) THEN <<>>
                   ELSE (IF i \in kept THEN <<Candidates[i]>> ELSE <<>>) \o Pick(i + 1)
    IN  Pick(1)

\* The evaluation completed: every component settled, the status was resolved
\* from what they gave and a banner carrying it is in the document
Completed ==
    /\ runs[1].pc = "done"
    /\ runs[1].settled = {"pr", "momentum", "forks", "workload"}
    /\ runs[1].status \in {"red", "yellow", "green"}
    /\ runs[1].status = Status(runs[1].prs, runs[1].claims, runs[1].forks)
    /\ \E i \in 1 .. Len(banners) :
          banners[i].kind = "banner" /\ banners[i].status = runs[1].status
    /\ floatBtn # Null

\* The defaults of PR detection, momentum and the fork scan
DegradedToDefaults ==
    /\ runs[1].call["search"] = Returned(FALSE) =>
           runs[1].prs = [i \in 1 .. Len(runs[1].anchors) |-> SidebarPR(runs[1].anchors[i])]
    /\ (runs[1].call["issue"] = Returned(FALSE) \/ runs[1].call["comments"] = Returned(FALSE)) =>
           runs[1].momentum = Null
    /\ runs[1].call["forks"] = Returned(FALSE) => runs[1].forks = <<>>
    /\ runs[1].call["forks"] = Returned(TRUE) =>
           runs[1].forks = ScanForks(LookedUp, runs[1].issueNumber)

SomeAssigneeFailed == \E i \in 1 .. Len(runs[1].assigneeOk) : runs[1].assigneeOk[i] = "failed"

\* C12 as stated: whatever remote calls failed, once none is outstanding the
\* evaluation has completed with a status and a banner, the other components
\* have completed, and each failing component is at its default: search PRs
\* empty, momentum null, forks empty or the matches of the non-failing forks,
\* workload null.
C12_AsClaimed ==
    Quiescent =>
        /\ Completed
        /\ DegradedToDefaults
        /\ (runs[1].call["workloadIssue"] = Returned(FALSE) \/ SomeAssigneeFailed) =>
               runs[1].workloads = Null

\* C12 as amended: the same, the workload being null when its issue request
\* fails; when an assignee's search fails the workload is still the list of the
\* assignees, that assignee's entry carrying no open-PR count and overloaded =
\* false.
C12_NoFailureAborts ==
    Quiescent =>
        /\ Completed
        /\ DegradedToDefaults
        /\ runs[1].call["workloadIssue"] = Returned(FALSE) => runs[1].workloads = Null
        /\ SomeAssigneeFailed =>
               /\ runs[1].workloads # Null
               /\ Len(runs[1].workloads.items) = Len(runs[1].assignees)
               /\ \A i \in 1 .. Len(runs[1].assignees) :
                     runs[1].assigneeOk[i] = "failed" =>
                         /\ runs[1].workloads.items[i].login = runs[1].assignees[i].login
                         /\ runs[1].workloads.items[i].openPRCount = Null
                         /\ runs[1].workloads.items[i].overloaded = FALSE

\* C12's case: the search, the issue request and the workload's issue request
\* failed, the fork listing succeeded, the first fork's branch lookup failed and
\* the second's gave a match; the evaluation completed.
C12_Witness ==
    /\ Quiescent
    /\ runs[1].pc = "done"
    /\ runs[1].call["search"] = Returned(FALSE)
    /\ runs[1].call["issue"] = Returned(FALSE)
    /\ runs[1].call["workloadIssue"] = Returned(FALSE)
    /\ runs[1].call["forks"] = Returned(TRUE)
    /\ runs[1].lookups = <<FALSE, TRUE>>
    /\ Len(runs[1].forks) = 1
    /\ runs[1].status = "yellow"

\* An assignee's search failed and the evaluation completed
C12_AssigneeSearchFailed ==
    /\ Quiescent
    /\ runs[1].pc = "done"
    /\ SomeAssigneeFailed

\* Every remote call of the evaluation failed, on a page without scraped pull
\* requests and without claim comments
TotalFailure ==
    /\ runs[1].pc = "done"
    /\ \A call \in CallNames : runs[1].call[call] = Returned(FALSE)
    /\ runs[1].anchors = <<>>
    /\ PageGroupsOf(location) = <<>>

\* What total failure leaves of the components and of the status
NeutralResults ==
    /\ runs[1].prs = <<>>
    /\ runs[1].claims = <<>>
    /\ runs[1].forks = <<>>
    /\ runs[1].momentum = Null
    /\ runs[1].status = "green"

\* C13: when every remote call fails and the page supplies no scraped PRs and no
\* claim comments, the evaluation yields empty PRs, empty claims, empty forks, an
\* absent momentum, status clear, and the baseline difficulty assessment (score
\* 50 with no rule having fired).
C13_TotalFailureBaseline ==
    TotalFailure =>
        /\ NeutralResults
        /\ runs[1].difficulty.score = 50
        /\ runs[1].difficulty.signals = <<>>

\* What the code yields instead: the neutral results, and a difficulty of 45,
\* level easy-medium, beginner-suitable, by the short-body rule alone
C13_ShortBodyRuleFires ==
    TotalFailure =>
        /\ NeutralResults
        /\ runs[1].difficulty.score = 45
        /\ runs[1].difficulty.level = "easy-medium"
        /\ runs[1].difficulty.canBeginner
        /\ runs[1].difficulty.signals = <<Rule("easy", -5)>>

\* What the components give as functions of which calls succeeded, whatever the
\* order they returned in
PRsByOutcome ==
    detectPRs(runs[1].anchors,
              fetchGitHub(IF runs[1].call["search"] = Returned(TRUE) THEN 200 ELSE 500,
                          SearchResponseOf(runs[1].issueNumber).data))
MomentumByOutcome ==
    IF runs[1].call["issue"] = Returned(TRUE) /\ runs[1].call["comments"] = Returned(TRUE)
    THEN calcMomentumScore([success |-> TRUE, data |-> IssueDataOf(runs[1].issueNumber)],
                           CommentsResponseOf(runs[1].issueNumber))
    ELSE Null
ForksByOutcome ==
    IF runs[1].call["forks"] = Returned(TRUE)
    THEN ScanForks(LookedUp, runs[1].issueNumber)
    ELSE <<>>

\* The scorer or the resolver has been invoked
Invoked == runs[1].difficulty # Null \/ runs[1].status # "none"

JoinedBeforeResolving ==
    /\ Invoked => runs[1].settled = {"pr", "momentum", "forks", "workload"}
    /\ runs[1].pc = "done" =>
          /\ runs[1].status = Status(PRsByOutcome, detectClaims(PageGroupsOf(location)),
                                     ForksByOutcome)
          /\ runs[1].difficulty =
                 calcDifficultyScore(IF MomentumByOutcome # Null
                                     THEN IssueDataOf(runs[1].issueNumber) ELSE EmptyObject,
                                     PRsByOutcome)

\* C14: in every completion order of the remote calls, the Difficulty Scorer and
\* the Status Resolver are invoked only after PR detection, momentum
\* calculation, fork scan and workload check of the same evaluation have all
\* completed, and the resolved status and difficulty do not depend on the order
\* in which those calls completed: they are functions of which calls succeeded,
\* and once resolved they do not change.
C14_JoinBeforeResolve ==
    /\ []JoinedBeforeResolving
    /\ [][Invoked => /\ runs'[1].status = runs[1].status
                     /\ runs'[1].difficulty = runs[1].difficulty]_vars

\* C14's case: the evaluation of issue 1 resolved after its fork's branch lookup
\* and its assignee's search had both returned, while the comments request,
\* whose failure settled the momentum, was followed by the issue request's
\* success.
C14_Witness ==
    /\ runs[1].pc = "done"
    /\ runs[1].issueNumber = <<"1">>
    /\ runs[1].lookups = <<TRUE>>
    /\ runs[1].assigneeOk = <<"ok">>
    /\ runs[1].call["comments"] = Returned(FALSE)
    /\ runs[1].call["issue"] = Returned(TRUE)
    /\ runs[1].status = "red"
    /\ runs[1].difficulty # Null

(* --- Momentum table --- *)

\* Seconds since the issue's last update; the place and the lag, in seconds, of
\* the first comment by an owner, member or collaborator
C15_Age == now - input.issue.data.updated_at.t
C15_Maintainers ==
    {i \in 1 .. Len(input.comments.data) :
        input.comments.data[i].author_association \in {"OWNER", "MEMBER", "COLLABORATOR"}}
C15_First == CHOOSE i \in C15_Maintainers : \A j \in C15_Maintainers : i <= j
C15_Lag == input.comments.data[C15_First].created_at.t - input.issue.data.created_at.t

C15_r ==
    IF input.issue.data.updated_at = Undefined THEN -30
    ELSE IF C15_Age < SecondsPerDay THEN 25
    ELSE IF C15_Age < 7 * SecondsPerDay THEN 15
    ELSE IF C15_Age < 30 * SecondsPerDay THEN 5
    ELSE IF C15_Age < 90 * SecondsPerDay THEN -10
    ELSE -30

C15_c ==
    LET n == input.issue.data.comments.n
    IN  IF n > 10 THEN 15 ELSE IF n > 5 THEN 8 ELSE IF n > 1 THEN 3
        ELSE IF n = 0 THEN -15 ELSE 0

C15_m ==
    IF C15_Maintainers = {} THEN -15
    ELSE IF C15_Lag < SecondsPerDay THEN 20
    ELSE IF C15_Lag < 7 * SecondsPerDay THEN 10
    ELSE IF C15_Lag >= 30 * SecondsPerDay THEN -10
    ELSE 0

\* An assessment was produced for an issue whose comment count is a number
C15_Assessed ==
    /\ output.fn = "calcMomentumScore"
    /\ output.momentum # Null
    /\ input.issue.data.comments # Undefined

\* The example: updated half a day ago, 12 comments, a maintainer answering a
\* fifth of a day after the issue was opened
C15_Example ==
    /\ C15_Assessed
    /\ input.issue.data.updated_at = ISOString(now - SecondsPerDay \div 2)
    /\ input.issue.data.comments = Num(12)
    /\ C15_Maintainers # {}
    /\ C15_Lag = SecondsPerDay \div 5

\* C15: the momentum score equals clamp(50 + r + c + m, 0, 100) with r by days
\* since update (<1: +25, <7: +15, <30: +5, <90: -10, else -30), c by comment
\* count (>10: +15, >5: +8, >1: +3, 0: -15, exactly 1: 0) and m by the lag of the
\* first owner/member/collaborator comment (<1d: +20, <7d: +10, >=30d: -10,
\* between: 0; no such comment: -15); the label is Active iff score >= 70, Slow
\* iff 40 <= score < 70, Stalled otherwise; the example gives 100 and Active.
C15_MomentumTable ==
    /\ C15_Assessed =>
          LET sum == 50 + C15_r + C15_c + C15_m
              score == output.momentum.score
          IN  /\ score = (IF sum < 0 THEN 0 ELSE IF sum > 100 THEN 100 ELSE sum)
              /\ output.momentum.label = "Active" <=> score >= 70
              /\ output.momentum.label = "Slow" <=> (40 <= score /\ score < 70)
              /\ output.momentum.label = "Stalled" <=> score < 40
    /\ C15_Example => output.momentum.score = 100 /\ output.momentum.label = "Active"

\* C15's case: the example's assessment
C15_Witness == C15_Example /\ output.momentum.score = 100

\* Assessments with each label, and one where the maintainer term is 0
C15_SlowReached == C15_Assessed /\ output.momentum.label = "Slow" /\ C15_m = 0 /\ C15_Maintainers # {}
C15_StalledReached == C15_Assessed /\ output.momentum.label = "Stalled" /\ C15_c = 0

(* --- Stat derivation without an assessment --- *)

\* C16: when the momentum assessment is absent, Stat Derivation does not fail:
\* buildRadarStats returns normally with the maintainer-response axis equal to
\* 10 and the activity axis computed from the neutral default of 999 days.
C16_AbsentMomentumDerives ==
    output.fn = "buildRadarStats" /\ input.momentum = Null =>
        /\ ~output.stats.threw
        /\ output.stats.maintainerResponse = Num(10)
        /\ output.stats.activity = Num(0)

\* What the code does instead: every derivation without an assessment throws
C16_AbsentMomentumThrows ==
    output.fn = "buildRadarStats" /\ input.momentum = Null => output.stats = TypeError

\* A derivation without an assessment, and one whose assessment has no
\* maintainer lag
C16_AbsentReached == output.fn = "buildRadarStats" /\ input.momentum = Null
C16_MissingLagReached ==
    /\ output.fn = "buildRadarStats"
    /\ input.momentum # Null
    /\ input.momentum.maintainerResponseDays = Null
    /\ output.stats.maintainerResponse = Num(10)

(* --- Difficulty signals --- *)

C17_Names ==
    IF input.issueData.labels = Undefined THEN {}
    ELSE {toLowerCase(input.issueData.labels.items[i]) :
             i \in 1 .. Len(input.issueData.labels.items)}
C17_Title == IF input.issueData.title \in {Undefined, Str(<<>>)} THEN <<>> ELSE input.issueData.title.s
C17_Body == IF input.issueData.body = Undefined THEN <<>> ELSE input.issueData.body.s
C17_BodyLen ==
    IF input.issueData.body = Undefined THEN 0
    ELSE Len(input.issueData.body.s) + input.issueData.body.pad
C17_Text == toLowerCase(C17_Title) \o <<" ">> \o toLowerCase(C17_Body)
C17_Matches(keywords) ==
    Cardinality({k \in 1 .. Len(keywords) : includes(C17_Text, keywords[k])})
C17_Comments == IF input.issueData.comments = Undefined THEN 0 ELSE input.issueData.comments.n
C17_Fences == CountSplits(C17_Body, <<BackTick, BackTick, BackTick>>)

\* The change each of the nine rules makes to the score on the input, 0 for a
\* rule that does not apply, in the order of the claim
C17_Changes == <<
    IF \E l \in C17_Names : \E e \in 1 .. Len(EASY_LABELS) : l = EASY_LABELS[e] THEN -25 ELSE 0,
    IF \E l \in C17_Names : \E h \in 1 .. Len(HARD_LABELS) : includes(l, HARD_LABELS[h]) THEN 30 ELSE 0,
    IF \E l \in C17_Names : \E m \in 1 .. Len(MEDIUM_LABELS) : l = MEDIUM_LABELS[m] THEN 5 ELSE 0,
    IF 8 * C17_Matches(HARD_KEYWORDS) < 32 THEN 8 * C17_Matches(HARD_KEYWORDS) ELSE 32,
    0 - (IF 7 * C17_Matches(EASY_KEYWORDS) < 28 THEN 7 * C17_Matches(EASY_KEYWORDS) ELSE 28),
    IF C17_BodyLen > 3000 THEN 12 ELSE IF C17_BodyLen > 1000 THEN 5
    ELSE IF C17_BodyLen < 200 THEN -5 ELSE 0,
    IF C17_Comments > 20 THEN 15 ELSE IF C17_Comments > 8 THEN 7 ELSE 0,
    IF Len(input.prHistory) > 2 THEN 18 ELSE IF Len(input.prHistory) > 0 THEN 8 ELSE 0,
    IF C17_Fences > 3 THEN 10 ELSE 0 >>

C17_Changed(delta) == delta # 0

\* C17: for every input, the difficulty score returned equals clamp(50 + sum of
\* the delta fields of the returned signals, 0, 100), every rule that changes
\* the score appends exactly one signal carrying that change, and the signals
\* are in the fixed rule order: beginner-friendly label, complexity label,
\* general label, hard keywords (min(8n, 32)), easy keywords (-min(7n, 28)),
\* body length, comment count, prior PR attempts, code blocks.
C17_SignalsExplainScore ==
    output.fn = "calcDifficultyScore" =>
        LET signals == output.difficulty.signals
            sum == 50 + SumOfDeltas(signals)
        IN  /\ output.difficulty.score = (IF sum < 0 THEN 0 ELSE IF sum > 100 THEN 100 ELSE sum)
            /\ [i \in 1 .. Len(signals) |-> signals[i].delta] = SelectSeq(C17_Changes, C17_Changed)

\* C17's case: an issue on which the hard keywords reach their cap of 32, easy
\* keywords, a label rule and the prior-PR rule all apply, and the score is
\* inside the range
C17_Witness ==
    /\ output.fn = "calcDifficultyScore"
    /\ C17_Changes[4] = 32
    /\ C17_Changes[5] < 0
    /\ C17_Changes[1] = -25
    /\ C17_Changes[8] = 18
    /\ output.difficulty.score > 0
    /\ output.difficulty.score < 100

\* The easy keywords reach their cap of 28
C17_EasyCapReached == output.fn = "calcDifficultyScore" /\ C17_Changes[5] = -28

(* --- Difficulty levels --- *)

\* The example: "Fix typo in README", "small docs fix", no labels, no comments,
\* no prior PRs
C18_Example ==
    /\ output.fn = "calcDifficultyScore"
    /\ input.issueData.title = Str(<<"F", "i", "x", " ", "t", "y", "p", "o", " ", "i", "n", " ", "R", "E", "A", "D", "M", "E">>)
    /\ input.issueData.body = Body(<<"s", "m", "a", "l", "l", " ", "d", "o", "c", "s", " ", "f", "i", "x">>, 0)
    /\ input.issueData.labels = Undefined
    /\ input.issueData.comments = Num(0)
    /\ input.prHistory = <<>>

\* C18: the difficulty level is determined by the clamped score alone with
\* breakpoints score < 28 beginner, < 50 easy-medium, < 68 medium, < 82 hard,
\* otherwise expert, and canBeginner is true iff the level is beginner or
\* easy-medium; the example issue gets a score below 28, level beginner and
\* canBeginner true.
C18_LevelByScore ==
    /\ output.fn = "calcDifficultyScore" =>
          LET d == output.difficulty
          IN  /\ d.level = "beginner" <=> d.score < 28
              /\ d.level = "easy-medium" <=> (28 <= d.score /\ d.score < 50)
              /\ d.level = "medium" <=> (50 <= d.score /\ d.score < 68)
              /\ d.level = "hard" <=> (68 <= d.score /\ d.score < 82)
              /\ d.level = "expert" <=> 82 <= d.score
              /\ d.canBeginner <=> d.level \in {"beginner", "easy-medium"}
    /\ C18_Example =>
          /\ output.difficulty.score < 28
          /\ output.difficulty.level = "beginner"
          /\ output.difficulty.canBeginner

\* C18's case: the example issue scored: 50 - 21 for typo, docs and readme, - 5
\* for the short body
C18_Witness == C18_Example /\ output.difficulty.score = 24

\* Scores on each breakpoint
C18_BreakpointsReached ==
    /\ output.fn = "calcDifficultyScore"
    /\ output.difficulty.score \in {28, 50, 68, 82}

(* --- Claims: order and the claim named by the banner --- *)

\* A comment group whose lower-cased body holds a claim phrase
C19_HoldsPhrase(g) ==
    /\ g.body # Null
    /\ \E k \in 1 .. Len(CLAIM_KEYWORDS) : includes(toLowerCase(g.body.s), CLAIM_KEYWORDS[k])

\* The non-stale claims handed to the banner
C19_Fresh == {i \in 1 .. Len(input.data.claims) : ~input.data.claims[i].isStale}

C19_OnlyClaimsLatestFirst ==
    output.fn = "detectClaims" =>
        /\ \A i \in 1 .. Len(output.claims) :
              \E g \in 1 .. Len(input.groups) :
                  /\ C19_HoldsPhrase(input.groups[g])
                  /\ input.groups[g].datetime = output.claims[i].claimedAt
                  /\ input.groups[g].author \in {output.claims[i].claimer, Null}
        /\ \A i, j \in 1 .. Len(output.claims) :
              i < j => output.claims[i].claimedAt.t >= output.claims[j].claimedAt.t

C19_HeaderNamesLatestFresh ==
    (output.fn = "buildBanner" /\ input.status = "yellow" /\ C19_Fresh # {}) =>
        /\ output.header.headerText = "recently claimed this"
        /\ \E i \in C19_Fresh :
              /\ \A j \in C19_Fresh :
                    input.data.claims[i].claimedAt.t >= input.data.claims[j].claimedAt.t
              /\ output.header.claimer = input.data.claims[i].claimer
              /\ output.header.since = input.data.claims[i].claimedAt

\* C19: detectClaims returns only records whose lower-cased body contains a
\* claim phrase, ordered by claimedAt descending (most recent first); whenever
\* at least one non-stale claim exists, the claim named in the yellow banner
\* header is the non-stale claim with the latest claimedAt.
C19_LatestFreshClaimNamed == C19_OnlyClaimsLatestFirst /\ C19_HeaderNamesLatestFresh

\* C19's case: the page's earlier comment is the later claim, by another
\* author, both claims are fresh, and the yellow banner names the later one
C19_Witness ==
    /\ output.fn = "buildBanner"
    /\ input.status = "yellow"
    /\ Cardinality(C19_Fresh) = 2
    /\ input.data.claims[1].claimedAt.t > input.data.claims[2].claimedAt.t
    /\ input.data.claims[1].claimer # input.data.claims[2].claimer
    /\ output.header.claimer = input.data.claims[1].claimer

\* detectClaims put a later comment of the page before an earlier one, and
\* dropped a comment without a claim phrase
C19_Reordered ==
    /\ output.fn = "detectClaims"
    /\ Len(input.groups) = 2
    /\ Len(output.claims) = 2
    /\ output.claims[1].claimedAt = input.groups[2].datetime
    /\ output.claims[1].claimedAt.t > output.claims[2].claimedAt.t
C19_Dropped ==
    /\ output.fn = "detectClaims"
    /\ Len(input.groups) = 2
    /\ Len(output.claims) = 1
    /\ ~C19_HoldsPhrase(input.groups[1])
    /\ input.groups[1].body # Null

(* --- Fork scan: which forks are looked at --- *)

\* The places in the listing of the forks passing the filter, and of those
\* whose branches were requested
C20_Qualifying == {i \in 1 .. Len(input.listing.data) : IsActiveFork(input.listing.data[i])}
C20_Scanned == {output.requested[i] : i \in 1 .. Len(output.requested)}
C20_PushedAt(i) == input.listing.data[i].pushed_at.t

\* C20: a fork scan issues at most 5 per-fork branch-list requests, and the
\* forks it scans are the 5 most-recently-pushed forks among those passing the
\* recency/untouched filter (no qualifying fork with a later pushed_at is
\* skipped in favour of one with an earlier pushed_at).
C20_MostRecentlyPushedScanned ==
    (output.fn = "scanForkActivity" /\ input.listing.success) =>
        /\ Len(output.requested) <= 5
        /\ C20_Scanned \subseteq C20_Qualifying
        /\ \A skipped \in C20_Qualifying \ C20_Scanned :
              \A scanned \in C20_Scanned : C20_PushedAt(skipped) <= C20_PushedAt(scanned)

\* What the code does: at most 5 requests, for the first qualifying forks in the
\* order of the listing
C20_FirstInListingScanned ==
    (output.fn = "scanForkActivity" /\ input.listing.success) =>
        /\ Len(output.requested) <= 5
        /\ C20_Scanned \subseteq C20_Qualifying
        /\ Cardinality(C20_Scanned) = Len(output.requested)
        /\ \A skipped \in C20_Qualifying \ C20_Scanned :
              /\ Len(output.requested) = 5
              /\ \A scanned \in C20_Scanned : scanned < skipped

\* Five forks pushed 5 days ago were scanned and a sixth, created before them
\* and pushed a day ago, was not
C20_LaterPushSkipped ==
    /\ output.fn = "scanForkActivity"
    /\ input.listing.success
    /\ Len(output.requested) = 5
    /\ \E skipped \in C20_Qualifying \ C20_Scanned :
          /\ C20_PushedAt(skipped) = EngineEpoch - SecondsPerDay
          /\ \A i \in 1 .. (skipped - 1) :
                input.listing.data[i].created_at.t >= input.listing.data[skipped].created_at.t

----------------------------------------------------------------------------
(* Claims on the cache and the credential, under SpecCredential *)

\* C21: a payload returned by githubAPI(url) was fetched under the credential
\* that is current at the time of the call: after the stored PAT is changed or
\* removed, no call returns data that was fetched (and cached) under the
\* previous PAT.
C21_ReturnedUnderCurrentCredential ==
    \A c \in CallIds :
        calls[c].pc = "resolved" => calls[c].result.authorization = calls[c].pat

\* What does hold: a payload that a call obtained by its own request was
\* fetched under the PAT that call read
C21_OwnRequestUnderOwnCredential ==
    \A c \in CallIds :
        (calls[c].pc = "resolved" /\ calls[c].cached = Null) =>
            calls[c].result.authorization = calls[c].pat

\* A call made after the token was removed is answered from the cache with a
\* payload fetched with the token
C21_StaleCredentialServed ==
    \E c \in CallIds :
        /\ calls[c].pc = "resolved"
        /\ calls[c].seen = "fresh"
        /\ calls[c].pat = Null
        /\ github_pat = Str(<<>>)
        /\ calls[c].result.authorization = Str(<<"g", "h", "p", "_", "a">>)

----------------------------------------------------------------------------
(* Claims on the page's elements, under SpecInit *)

\* C22: in every reachable state, under any interleaving of init runs (including
\* injectBanner waiting for its mount target to appear), the page contains at
\* most one element with id oss-tc-banner and at most one element with id
\* oss-tc-float-btn. (injectFloatBtn removes the button and appends the new one
\* in one synchronous step, so the page's button is the single value floatBtn;
\* the elements with id oss-tc-banner are the sequence banners.)
C22_AtMostOneBannerAndButton == Len(banners) <= 1

\* Two elements with id oss-tc-banner: the banner of an evaluation that waited
\* for its target, next to the loader or the banner of a later evaluation
C22_TwoBanners ==
    /\ Len(banners) = 2
    /\ \E i, j \in 1 .. 2 :
          /\ banners[i].kind = "banner"
          /\ i # j
          /\ banners[j].kind = "loader" \/ banners[j].data > banners[i].data

----------------------------------------------------------------------------
(* Claims on the popup's Save, under SpecPopup *)

C23_HasPrefix(s, prefix) ==
    /\ Len(s) >= Len(prefix)
    /\ \A i \in 1 .. Len(prefix) : s[i] = prefix[i]

\* A token text that is empty or starts with ghp_ or github_pat_
C23_WellFormed(s) ==
    \/ s = <<>>
    \/ C23_HasPrefix(s, <<"g", "h", "p", "_">>)
    \/ C23_HasPrefix(s, <<"g", "i", "t", "h", "u", "b", "_", "p", "a", "t", "_">>)

\* C23: after any sequence of Save clicks in the popup, the stored github_pat is
\* either empty or starts with "ghp_" or "github_pat_" (given it was so
\* initially); a Save whose trimmed PAT is non-empty and has neither prefix
\* leaves both the stored PAT and the stored feature flags unchanged.
C23_SaveKeepsTokenWellFormed ==
    /\ [](github_pat # Undefined => C23_WellFormed(github_pat.s))
    /\ [][~C23_WellFormed(trim(popup'.patInput)) =>
              /\ github_pat' = github_pat
              /\ features' = features]_vars

\* C23's case: Save was clicked on the text abc with other checkboxes than the
\* stored flags; the popup shows the warning, the stored token is still ghp_a
\* and the stored flags are not those of the checkboxes
C23_Witness ==
    /\ popup.patInput = <<"a", "b", "c">>
    /\ popup.statusText = "PAT should start with ghp_"
    /\ github_pat = Str(<<"g", "h", "p", "_", "a">>)
    /\ features # Undefined
    /\ features # popup.checked

\* A token typed with blanks around it was stored without them
C23_TrimmedStored ==
    /\ popup.patInput = TokenTyped
    /\ github_pat = Str(<<"g", "h", "p", "_", "a">>)
    /\ popup.statusText = "PAT configured 5000 req/hr"

====
